---- MODULE Spec2Model ----
(***************************************************************************)
(* A model of the crusty_gba ARM7TDMI core: the register file, the         *)
(* condition table, the decoder, the instruction handlers and the step     *)
(* driver, together with the harness the CPU tests drive it with.          *)
(*                                                                         *)
(* A 32-bit word (u32) is the set of the positions of its set bits, a      *)
(* subset of 0..31; a 64-bit value (u64/i64) is a subset of 0..63.  Bit    *)
(* operations are set operations and arithmetic is done on 16-bit chunks,  *)
(* so every result keeps its width.                                        *)
(***************************************************************************)
EXTENDS Integers, Sequences, FiniteSets, TLC

VARIABLES
    cpu,        \* the ARM7TDMI under test
    response,   \* the MemoryResponse the harness passes to the next step
    request,    \* the MemoryRequest returned by the last step
    memory,     \* the memory of the harness
    panicked,   \* a call has panicked: the run is over
    steps,      \* the number of calls of step with the bus ready
    inflight,   \* the ready calls the instruction in flight has taken so far
    last_op,    \* what the last call of step was
    snapshot,   \* the CPU when the instruction in flight, and the last trap, began
    register_file, \* a RegisterFile called directly, as test_registers does
    call,       \* the last call made on register_file, with what it returned
    shadow,     \* the value last written to each copy of a register of it
    calls       \* the number of calls made on register_file

cpu_vars == <<cpu, response, request, memory, panicked, steps, inflight, last_op, snapshot>>
rf_vars == <<register_file, call, shadow, calls>>
vars == <<cpu, response, request, memory, panicked, steps, inflight, last_op,
          snapshot, register_file, call, shadow, calls>>

(***************************************************************************)
(* Words                                                                   *)
(***************************************************************************)
BitsOf(n, width) == {i \in 0..(width - 1) : (n \div (2 ^ i)) % 2 = 1}

\* The word whose upper half-word is hi and whose lower half-word is lo.
W(hi, lo) == BitsOf(lo, 16) \cup {i + 16 : i \in BitsOf(hi, 16)}

\* The word of a small natural number (below 2^30).
U(n) == BitsOf(n, 30)

RECURSIVE Bits(_, _, _)
\* The number held in bits end..begin of w (at most 30 bits wide).
Bits(w, end, begin) ==
    IF end < begin THEN 0
    ELSE IF end = begin THEN (IF begin \in w THEN 1 ELSE 0)
    ELSE Bits(w, (begin + end) \div 2, begin)
         + (2 ^ ((begin + end) \div 2 - begin + 1)) * Bits(w, end, (begin + end) \div 2 + 1)

Chunk(w, k) == Bits(w, 16 * k + 15, 16 * k)

RECURSIVE AddChunks(_, _, _, _, _)
\* a + b + c modulo 2^(16 n), chunk k upwards.
AddChunks(a, b, c, k, n) ==
    IF k = n THEN {}
    ELSE LET s == Chunk(a, k) + Chunk(b, k) + c
         IN  {i + 16 * k : i \in BitsOf(s % 65536, 16)}
                 \cup AddChunks(a, b, s \div 65536, k + 1, n)

not32(a) == (0..31) \ a
not64(a) == (0..63) \ a
and(a, b) == a \cap b
or(a, b) == a \cup b
xor(a, b) == (a \ b) \cup (b \ a)

wrapping_add(a, b) == AddChunks(a, b, 0, 0, 2)
wrapping_sub(a, b) == AddChunks(a, not32(b), 1, 0, 2)
add64(a, b) == AddChunks(a, b, 0, 0, 4)
sub64(a, b) == AddChunks(a, not64(b), 1, 0, 4)

\* operand as i32 as i64
sext64(a) == IF 31 \in a THEN a \cup (32..63) ELSE a
\* value as u32
low32(a) == a \cap (0..31)

\* a < b and a <= b on unsigned values of up to 64 bits
ult(a, b) == \E i \in b \ a : \A j \in xor(a, b) : j <= i
ule(a, b) == a = b \/ ult(a, b)

shl(a, n) == {i + n : i \in a} \cap (0..31)
shr(a, n) == {i - n : i \in a} \cap (0..31)
rotate_right(a, n) == {(i + 32 - (n % 32)) % 32 : i \in a}
leading_zeros(a) == IF a = {} THEN 32 ELSE 31 - (CHOOSE i \in a : \A j \in a : j <= i)
count_ones(a) == Cardinality(a)

(***************************************************************************)
(* common::BitOperation                                                    *)
(***************************************************************************)
set_bit(w, index) == w \cup {index}
\* Variant of clear_bit that leaves the bit as it is
clear_bit_keeps(w, b) == w

clear_bit(w, index) == w \ {index}
is_bit_set(w, index) == index \in w
is_bit_clear(w, index) == ~is_bit_set(w, index)
get_range(w, end, begin) == {i - begin : i \in w \cap (begin..end)}


(***************************************************************************)
(* arm7_tdmi::OperatingMode                                                *)
(***************************************************************************)
SYSTEM == 16
USER == 31
FIQ == 17
IRQ == 18
SUPERVISOR == 19
ABORT == 23
UND == 27

(***************************************************************************)
(* register_file::RegisterFile                                             *)
(***************************************************************************)
RegisterFile_new ==
    [registers |-> [i \in 0..15 |-> IF i = 15 THEN W(\h07ff, \hfff8) ELSE {}],
     fiq_bank  |-> [i \in 0..6 |-> {}],
     svc_bank  |-> [i \in 0..1 |-> {}],
     abt_bank  |-> [i \in 0..1 |-> {}],
     irq_bank  |-> [i \in 0..1 |-> {}],
     und_bank  |-> [i \in 0..1 |-> {}],
     cpsr      |-> U(16),
     spsr      |-> [i \in 0..4 |-> {}]]

\* self.cpsr.get_range(4, 0)
mode_bits(rf) == Bits(rf.cpsr, 4, 0)

\* The match of get_register has no arm for r13/r14 in a mode that is none of
\* the seven (it panics there); no such mode is ever in the CPSR.
get_register(rf, index, pc_increment) ==
    LET mode == mode_bits(rf) IN
    CASE index \in 0..7 -> rf.registers[index]
      [] index \in 8..12 ->
            IF mode = FIQ THEN rf.fiq_bank[index - 8] ELSE rf.registers[index]
      [] index \in 13..14 ->
            (CASE mode = SYSTEM -> rf.registers[index]
               [] mode = USER -> rf.registers[index]
               [] mode = FIQ -> rf.fiq_bank[index - 8]
               [] mode = SUPERVISOR -> rf.svc_bank[index - 13]
               [] mode = ABORT -> rf.abt_bank[index - 13]
               [] mode = IRQ -> rf.irq_bank[index - 13]
               [] mode = UND -> rf.und_bank[index - 13])
      [] index = 15 -> wrapping_add(rf.registers[15], U(pc_increment))

\* Variant of write_register in which the supervisor mode has no bank of
\* its own
write_register_svc_unbanked(rf, index, value) ==
    LET mode == mode_bits(rf) IN
    CASE index \in 0..7 -> [rf EXCEPT !.registers[index] = value]
      [] index \in 8..12 ->
            IF mode = FIQ THEN [rf EXCEPT !.fiq_bank[index - 8] = value]
            ELSE [rf EXCEPT !.registers[index] = value]
      [] index \in 13..14 ->
            (CASE mode = FIQ -> [rf EXCEPT !.fiq_bank[index - 8] = value]
               [] mode = ABORT -> [rf EXCEPT !.abt_bank[index - 13] = value]
               [] mode = IRQ -> [rf EXCEPT !.irq_bank[index - 13] = value]
               [] mode = UND -> [rf EXCEPT !.und_bank[index - 13] = value]
               [] OTHER -> [rf EXCEPT !.registers[index] = value])
      [] index = 15 -> [rf EXCEPT !.registers[15] = value]

write_register(rf, index, value) ==
    LET mode == mode_bits(rf) IN
    CASE index \in 0..7 -> [rf EXCEPT !.registers[index] = value]
      [] index \in 8..12 ->
            IF mode = FIQ THEN [rf EXCEPT !.fiq_bank[index - 8] = value]
            ELSE [rf EXCEPT !.registers[index] = value]
      [] index \in 13..14 ->
            (CASE mode = FIQ -> [rf EXCEPT !.fiq_bank[index - 8] = value]
               [] mode = SUPERVISOR -> [rf EXCEPT !.svc_bank[index - 13] = value]
               [] mode = ABORT -> [rf EXCEPT !.abt_bank[index - 13] = value]
               [] mode = IRQ -> [rf EXCEPT !.irq_bank[index - 13] = value]
               [] mode = UND -> [rf EXCEPT !.und_bank[index - 13] = value]
               [] OTHER -> [rf EXCEPT !.registers[index] = value])
      [] index = 15 -> [rf EXCEPT !.registers[15] = value]

get_cpsr(rf) == rf.cpsr

is_mode_correct(value) ==
    LET v == Bits(value, 4, 0) IN
    ~(v # SYSTEM /\ v # USER /\ v # FIQ /\ v # IRQ /\ v # SUPERVISOR /\ v # ABORT /\ v # UND)

\* Result<(), ()> and the register file after the call
\* Variant of write_cpsr without the validation of the mode bits
write_cpsr_any_mode(rf, value) == [ok |-> TRUE, rf |-> [rf EXCEPT !.cpsr = value]]

write_cpsr(rf, value) ==
    IF ~is_mode_correct(value) THEN [ok |-> FALSE, rf |-> rf]
    ELSE [ok |-> TRUE, rf |-> [rf EXCEPT !.cpsr = value]]

write_v(rf, v) == [rf EXCEPT !.cpsr = IF v THEN set_bit(@, 28) ELSE clear_bit(@, 28)]
write_n(rf, n) == [rf EXCEPT !.cpsr = IF n THEN set_bit(@, 31) ELSE clear_bit(@, 31)]
write_c(rf, c) == [rf EXCEPT !.cpsr = IF c THEN set_bit(@, 29) ELSE clear_bit(@, 29)]
write_z(rf, z) == [rf EXCEPT !.cpsr = IF z THEN set_bit(@, 30) ELSE clear_bit(@, 30)]

\* The index of the SPSR slot of the current mode; -1 where get_spsr panics and
\* write_spsr does nothing.
spsr_slot(rf) ==
    LET mode == mode_bits(rf) IN
    CASE mode = FIQ -> 0
      [] mode = SUPERVISOR -> 1
      [] mode = ABORT -> 2
      [] mode = IRQ -> 3
      [] mode = UND -> 4
      [] OTHER -> -1

get_spsr_panics(rf) == spsr_slot(rf) = -1
get_spsr(rf) == rf.spsr[spsr_slot(rf)]

\* Variant of write_spsr without the validation of the mode bits
write_spsr_any_mode(rf, value) ==
    IF spsr_slot(rf) = -1 THEN [ok |-> TRUE, rf |-> rf]
    ELSE [ok |-> TRUE, rf |-> [rf EXCEPT !.spsr[spsr_slot(rf)] = value]]

write_spsr(rf, value) ==
    IF ~is_mode_correct(value) THEN [ok |-> FALSE, rf |-> rf]
    ELSE IF spsr_slot(rf) = -1 THEN [ok |-> TRUE, rf |-> rf]
    ELSE [ok |-> TRUE, rf |-> [rf EXCEPT !.spsr[spsr_slot(rf)] = value]]

\* ConditionCodeFlag
is_flag_set(rf, flag) ==
    CASE flag = "N" -> get_range(rf.cpsr, 31, 31) = U(1)
      [] flag = "Z" -> get_range(rf.cpsr, 30, 30) = U(1)
      [] flag = "C" -> get_range(rf.cpsr, 29, 29) = U(1)
      [] flag = "V" -> get_range(rf.cpsr, 28, 28) = U(1)

\* Variant of check_condition_code in which GE tests what LT tests
check_condition_code_ge_is_lt(rf, code) ==
    LET c == code % 16 IN
    CASE c = 0 -> is_flag_set(rf, "Z")
      [] c = 1 -> ~is_flag_set(rf, "Z")
      [] c = 2 -> is_flag_set(rf, "C")
      [] c = 3 -> ~is_flag_set(rf, "C")
      [] c = 4 -> is_flag_set(rf, "N")
      [] c = 5 -> ~is_flag_set(rf, "N")
      [] c = 6 -> is_flag_set(rf, "V")
      [] c = 7 -> ~is_flag_set(rf, "V")
      [] c = 8 -> is_flag_set(rf, "C") /\ ~is_flag_set(rf, "Z")
      [] c = 9 -> ~is_flag_set(rf, "C") /\ is_flag_set(rf, "Z")
      [] c = 10 -> is_flag_set(rf, "N") # is_flag_set(rf, "V")
      [] c = 11 -> is_flag_set(rf, "N") # is_flag_set(rf, "V")
      [] c = 12 -> ~is_flag_set(rf, "Z") /\ (is_flag_set(rf, "N") = is_flag_set(rf, "V"))
      [] c = 13 -> is_flag_set(rf, "Z") /\ (is_flag_set(rf, "N") # is_flag_set(rf, "V"))
      [] c = 14 -> TRUE
      [] c = 15 -> TRUE

check_condition_code(rf, code) ==
    LET c == code % 16 IN
    CASE c = 0 -> is_flag_set(rf, "Z")
      [] c = 1 -> ~is_flag_set(rf, "Z")
      [] c = 2 -> is_flag_set(rf, "C")
      [] c = 3 -> ~is_flag_set(rf, "C")
      [] c = 4 -> is_flag_set(rf, "N")
      [] c = 5 -> ~is_flag_set(rf, "N")
      [] c = 6 -> is_flag_set(rf, "V")
      [] c = 7 -> ~is_flag_set(rf, "V")
      [] c = 8 -> is_flag_set(rf, "C") /\ ~is_flag_set(rf, "Z")
      [] c = 9 -> ~is_flag_set(rf, "C") /\ is_flag_set(rf, "Z")
      [] c = 10 -> is_flag_set(rf, "N") = is_flag_set(rf, "V")
      [] c = 11 -> is_flag_set(rf, "N") # is_flag_set(rf, "V")
      [] c = 12 -> ~is_flag_set(rf, "Z") /\ (is_flag_set(rf, "N") = is_flag_set(rf, "V"))
      [] c = 13 -> is_flag_set(rf, "Z") /\ (is_flag_set(rf, "N") # is_flag_set(rf, "V"))
      [] c = 14 -> TRUE
      [] c = 15 -> TRUE

get_mode(rf) ==
    LET mode == mode_bits(rf) IN
    IF mode \in {USER, FIQ, IRQ, SUPERVISOR, ABORT, UND} THEN mode ELSE SYSTEM

(***************************************************************************)
(* instruction::ArmAluOpcode (opcodes are the numbers 0..15 of the enum)    *)
(***************************************************************************)
is_test_opcode(opcode) == opcode >= 8 /\ opcode <= 11
is_logical(opcode) == opcode <= 1 \/ (opcode >= 8 /\ opcode <= 9) \/ opcode >= 12
is_arithmetic(opcode) == ~is_logical(opcode)

(***************************************************************************)
(* instruction::decode_arm                                                 *)
(***************************************************************************)
\* The decoder that tests the half-word transfer before the multiply
decode_arm_halfword_first(data) ==
    CASE and(data, W(\h0FFF, \hFFF0)) = W(\h012F, \hFF10) -> "BranchAndExchange"
      [] and(data, W(\h0E00, \h0000)) = W(\h0800, \h0000) -> "BlockDataTransfer"
      [] and(data, W(\h0E00, \h0000)) = W(\h0A00, \h0000) -> "Branch"
      [] and(data, W(\h0F00, \h0000)) = W(\h0F00, \h0000) -> "SoftwareInterrupt"
      [] and(data, W(\h0E00, \h0010)) = W(\h0600, \h0010) -> "Undefined"
      [] and(data, W(\h0C00, \h0000)) = W(\h0400, \h0000) -> "SingleDataTransfer"
      [] and(data, W(\h0F80, \h0FF0)) = W(\h0100, \h0090) -> "SingleDataSwap"
      [] and(data, W(\h0E00, \h0090)) = W(\h0000, \h0090) -> "HwTransfer"
      [] and(data, W(\h0F00, \h00F0)) = W(\h0000, \h0090) -> "Multiply"
      [] and(data, W(\h0FBF, \h0000)) = W(\h010F, \h0000) -> "PsrTransferMRS"
      [] and(data, W(\h0DB0, \hF000)) = W(\h0120, \hF000) -> "PsrTransferMSR"
      [] and(data, W(\h0C00, \h0000)) = W(\h0000, \h0000) -> "DataProcessing"
      [] OTHER -> "Unimplemented"

decode_arm(data) ==
    CASE and(data, W(\h0FFF, \hFFF0)) = W(\h012F, \hFF10) -> "BranchAndExchange"
      [] and(data, W(\h0E00, \h0000)) = W(\h0800, \h0000) -> "BlockDataTransfer"
      [] and(data, W(\h0E00, \h0000)) = W(\h0A00, \h0000) -> "Branch"
      [] and(data, W(\h0F00, \h0000)) = W(\h0F00, \h0000) -> "SoftwareInterrupt"
      [] and(data, W(\h0E00, \h0010)) = W(\h0600, \h0010) -> "Undefined"
      [] and(data, W(\h0C00, \h0000)) = W(\h0400, \h0000) -> "SingleDataTransfer"
      [] and(data, W(\h0F80, \h0FF0)) = W(\h0100, \h0090) -> "SingleDataSwap"
      [] and(data, W(\h0F00, \h00F0)) = W(\h0000, \h0090) -> "Multiply"
      [] and(data, W(\h0E00, \h0090)) = W(\h0000, \h0090) -> "HwTransfer"
      [] and(data, W(\h0FBF, \h0000)) = W(\h010F, \h0000) -> "PsrTransferMRS"
      [] and(data, W(\h0DB0, \hF000)) = W(\h0120, \hF000) -> "PsrTransferMSR"
      [] and(data, W(\h0C00, \h0000)) = W(\h0000, \h0000) -> "DataProcessing"
      [] OTHER -> "Unimplemented"

(***************************************************************************)
(* instruction::barrel_shifter                                             *)
(***************************************************************************)
\* The arithmetic shift without the copies of the sign
asr_logical(a, n) == shr(a, n)

\* (operand as i32).wrapping_shr(n) as u32
asr(a, n) == shr(a, n) \cup (IF 31 \in a THEN (32 - n)..31 ELSE {})

\* The barrel shifter that treats LSR by a register holding 0 as LSR #32
barrel_shifter_lsr_always_shifts(operand, shift_type, shift_amount, old_c, is_register) ==
    CASE shift_type = 0 ->
            IF shift_amount = 0 THEN
                [result |-> operand, carry |-> old_c, there_is_shift |-> FALSE]
            ELSE IF shift_amount < 32 THEN
                [result |-> shl(operand, shift_amount),
                 carry |-> is_bit_set(operand, 32 - shift_amount),
                 there_is_shift |-> TRUE]
            ELSE IF shift_amount = 32 THEN
                [result |-> {}, carry |-> is_bit_set(operand, 0), there_is_shift |-> TRUE]
            ELSE
                [result |-> {}, carry |-> FALSE, there_is_shift |-> TRUE]
      [] shift_type = 1 ->
            IF shift_amount = 32 \/ shift_amount = 0 THEN
                [result |-> {}, carry |-> is_bit_set(operand, 31), there_is_shift |-> TRUE]
            ELSE IF shift_amount < 32 THEN
                [result |-> shr(operand, shift_amount),
                 carry |-> is_bit_set(operand, shift_amount - 1),
                 there_is_shift |-> TRUE]
            ELSE
                [result |-> {}, carry |-> FALSE, there_is_shift |-> TRUE]
      [] shift_type = 2 ->
            IF shift_amount = 0 /\ is_register THEN
                [result |-> operand, carry |-> old_c, there_is_shift |-> FALSE]
            ELSE IF shift_amount >= 32 \/ (shift_amount = 0 /\ ~is_register) THEN
                [result |-> IF is_bit_set(operand, 31) THEN 0..31 ELSE {},
                 carry |-> is_bit_set(operand, 31),
                 there_is_shift |-> TRUE]
            ELSE
                [result |-> asr(operand, shift_amount),
                 carry |-> is_bit_set(operand, shift_amount - 1),
                 there_is_shift |-> TRUE]
      [] shift_type = 3 ->
            IF shift_amount = 0 THEN
                IF is_register THEN
                    [result |-> operand, carry |-> old_c, there_is_shift |-> FALSE]
                ELSE
                    [result |-> IF old_c THEN set_bit(shr(operand, 1), 31)
                                ELSE clear_bit(shr(operand, 1), 31),
                     carry |-> is_bit_set(operand, 0),
                     there_is_shift |-> TRUE]
            ELSE IF shift_amount % 32 = 0 THEN
                [result |-> operand, carry |-> is_bit_set(operand, 31), there_is_shift |-> TRUE]
            ELSE
                [result |-> rotate_right(operand, shift_amount % 32),
                 carry |-> is_bit_set(operand, (shift_amount % 32) - 1),
                 there_is_shift |-> TRUE]

barrel_shifter(operand, shift_type, shift_amount, old_c, is_register) ==
    CASE shift_type = 0 ->
            IF shift_amount = 0 THEN
                [result |-> operand, carry |-> old_c, there_is_shift |-> FALSE]
            ELSE IF shift_amount < 32 THEN
                [result |-> shl(operand, shift_amount),
                 carry |-> is_bit_set(operand, 32 - shift_amount),
                 there_is_shift |-> TRUE]
            ELSE IF shift_amount = 32 THEN
                [result |-> {}, carry |-> is_bit_set(operand, 0), there_is_shift |-> TRUE]
            ELSE
                [result |-> {}, carry |-> FALSE, there_is_shift |-> TRUE]
      [] shift_type = 1 ->
            IF shift_amount = 0 /\ is_register THEN
                [result |-> operand, carry |-> old_c, there_is_shift |-> FALSE]
            ELSE IF shift_amount = 32 \/ (shift_amount = 0 /\ ~is_register) THEN
                [result |-> {}, carry |-> is_bit_set(operand, 31), there_is_shift |-> TRUE]
            ELSE IF shift_amount < 32 THEN
                [result |-> shr(operand, shift_amount),
                 carry |-> is_bit_set(operand, shift_amount - 1),
                 there_is_shift |-> TRUE]
            ELSE
                [result |-> {}, carry |-> FALSE, there_is_shift |-> TRUE]
      [] shift_type = 2 ->
            IF shift_amount = 0 /\ is_register THEN
                [result |-> operand, carry |-> old_c, there_is_shift |-> FALSE]
            ELSE IF shift_amount >= 32 \/ (shift_amount = 0 /\ ~is_register) THEN
                [result |-> IF is_bit_set(operand, 31) THEN 0..31 ELSE {},
                 carry |-> is_bit_set(operand, 31),
                 there_is_shift |-> TRUE]
            ELSE
                [result |-> asr(operand, shift_amount),
                 carry |-> is_bit_set(operand, shift_amount - 1),
                 there_is_shift |-> TRUE]
      [] shift_type = 3 ->
            IF shift_amount = 0 THEN
                IF is_register THEN
                    [result |-> operand, carry |-> old_c, there_is_shift |-> FALSE]
                ELSE
                    [result |-> IF old_c THEN set_bit(shr(operand, 1), 31)
                                ELSE clear_bit(shr(operand, 1), 31),
                     carry |-> is_bit_set(operand, 0),
                     there_is_shift |-> TRUE]
            ELSE IF shift_amount % 32 = 0 THEN
                [result |-> operand, carry |-> is_bit_set(operand, 31), there_is_shift |-> TRUE]
            ELSE
                [result |-> rotate_right(operand, shift_amount % 32),
                 carry |-> is_bit_set(operand, (shift_amount % 32) - 1),
                 there_is_shift |-> TRUE]

(***************************************************************************)
(* ARM7TDMI::alu, alu_operation (instruction.rs)                            *)
(***************************************************************************)
\* The value 1 and the carry-in as 64-bit values
one64 == {0}
\* The carry-in read as always clear
c_in64_always_clear(rf) == {}

c_in64(rf) == IF is_flag_set(rf, "C") THEN {0} ELSE {}

\* The panic of alu ("Wrong argument `opcode` for alu") is not reachable from
\* alu_operation, which calls it for the arithmetic opcodes only.
alu(rf, operand1, operand2, opcode) ==
    LET op1 == sext64(operand1)
        op2 == sext64(operand2)
        c_in == c_in64(rf)
        sub_v(x, y, r) == is_bit_set(and(xor(x, y), xor(not32(y), low32(r))), 31)
        add_v(x, y, r) == is_bit_set(and(xor(y, not32(x)), xor(x, low32(r))), 31)
        carry32 == {32}
    IN
    CASE opcode \in {2, 10} ->
            LET r == sub64(op1, op2) IN
            [result |-> low32(r), c |-> ule(low32(op2), low32(op1)),
             v |-> sub_v(operand1, operand2, r)]
      [] opcode = 3 ->
            LET r == sub64(op2, op1) IN
            [result |-> low32(r), c |-> ule(low32(op1), low32(op2)),
             v |-> sub_v(operand2, operand1, r)]
      [] opcode \in {4, 11} ->
            LET r == add64(op1, op2) IN
            [result |-> low32(r), c |-> ule(carry32, add64(operand1, operand2)),
             v |-> add_v(operand1, operand2, r)]
      [] opcode = 5 ->
            LET r == add64(add64(op1, op2), c_in) IN
            [result |-> low32(r),
             c |-> ule(carry32, add64(add64(operand1, operand2), c_in)),
             v |-> add_v(operand1, operand2, r)]
      [] opcode = 6 ->
            LET r == sub64(add64(sub64(op1, op2), c_in), one64) IN
            [result |-> low32(r),
             c |-> ule(sub64(add64(operand2, one64), c_in), operand1),
             v |-> sub_v(operand1, operand2, r)]
      [] opcode = 7 ->
            LET r == sub64(add64(sub64(op2, op1), c_in), one64) IN
            [result |-> low32(r),
             c |-> ule(sub64(add64(operand1, one64), c_in), operand2),
             v |-> sub_v(operand2, operand1, r)]

alu_operation(rf, operand1, operand2, opcode) ==
    CASE opcode = 0 -> [result |-> and(operand1, operand2), c |-> FALSE, v |-> FALSE]
      [] opcode = 1 -> [result |-> xor(operand1, operand2), c |-> FALSE, v |-> FALSE]
      [] opcode \in {2, 3, 4, 5, 6, 7} -> alu(rf, operand1, operand2, opcode)
      [] opcode = 8 -> [result |-> and(operand1, operand2), c |-> FALSE, v |-> FALSE]
      [] opcode = 9 -> [result |-> xor(operand1, operand2), c |-> FALSE, v |-> FALSE]
      [] opcode \in {10, 11} -> alu(rf, operand1, operand2, opcode)
      [] opcode = 12 -> [result |-> or(operand1, operand2), c |-> FALSE, v |-> FALSE]
      [] opcode = 13 -> [result |-> operand2, c |-> FALSE, v |-> FALSE]
      [] opcode = 14 -> [result |-> and(operand1, not32(operand2)), c |-> FALSE, v |-> FALSE]
      [] opcode = 15 -> [result |-> not32(operand2), c |-> FALSE, v |-> FALSE]

\* update_flags writing V for the logical opcodes as well
update_flags_logical_writes_v(rf, alu_result, opcode, rd, carry_output, carry_shifter, v_output) ==
    IF rd # 15 THEN
        LET rf1 == write_n(write_z(rf, alu_result = {}), is_bit_set(alu_result, 31)) IN
        [rf |-> IF is_logical(opcode) THEN write_v(write_c(rf1, carry_shifter), v_output)
                ELSE write_v(write_c(rf1, carry_output), v_output),
         panic |-> FALSE]
    ELSE IF get_spsr_panics(rf) THEN [rf |-> rf, panic |-> TRUE]
    ELSE LET res == write_cpsr(rf, get_spsr(rf)) IN
         [rf |-> res.rf, panic |-> ~res.ok]

\* update_flags: the register file after the call, and whether the call panicked
\* (get_spsr in a mode without SPSR, or the assert_ne! on write_cpsr).
update_flags(rf, alu_result, opcode, rd, carry_output, carry_shifter, v_output) ==
    IF rd # 15 THEN
        LET rf1 == write_n(write_z(rf, alu_result = {}), is_bit_set(alu_result, 31)) IN
        [rf |-> IF is_logical(opcode) THEN write_c(rf1, carry_shifter)
                ELSE write_v(write_c(rf1, carry_output), v_output),
         panic |-> FALSE]
    ELSE IF get_spsr_panics(rf) THEN [rf |-> rf, panic |-> TRUE]
    ELSE LET res == write_cpsr(rf, get_spsr(rf)) IN
         [rf |-> res.rf, panic |-> ~res.ok]

(***************************************************************************)
(* arm7_tdmi::ARM7TDMI                                                     *)
(*                                                                         *)
(* The CPU is a record; a handler takes the CPU and the request built by   *)
(* step and gives the record [self, req, panic]: the CPU and the request    *)
(* after the call, and whether the call ended in a panic (the state then   *)
(* is the one mutated so far).  An entry of the instruction queue is       *)
(* [data, addr]: data is the u32 of the VecDeque, addr records the address *)
(* the word was read from (it is not read by any handler).                 *)
(***************************************************************************)
NOP == W(\hE1A0, \h0000)

STEP0 == 0
STEP1 == 1
STEP2 == 2
STEP3 == 3
STEP4 == 4

ARM7TDMI_new ==
    [rf |-> RegisterFile_new,
     arm_instruction_queue |-> << >>,
     arm_current_execute |-> NOP,
     data_is_fetch |-> TRUE,
     data_is_reading |-> TRUE,
     instruction_step |-> STEP0,
     last_used_address |-> {},
     instruction_counter_step |-> 0,
     list_transfer_op |-> << >>,
     current_address |-> {-1}]

Ret(self, req) == [cpu |-> self, req |-> req, panic |-> FALSE]
Panic(self, req) == [cpu |-> self, req |-> req, panic |-> TRUE]

\* self.arm_current_execute.get_range(end, begin)
Field(self, end, begin) == Bits(self.arm_current_execute, end, begin)

arm_data_processing(self, req) ==
    LET rd == Field(self, 15, 12)
        s_flag == Field(self, 20, 20)
        opcode == Field(self, 24, 21)
        rf == self.rf
    IN
    CASE self.instruction_step = STEP0 ->
        LET i_flag == Field(self, 25, 25)
            condition == Field(self, 31, 28)
            rn == Field(self, 19, 16)
            rs == Field(self, 11, 8)
            shift_type == Field(self, 6, 5)
            r_flag == Field(self, 4, 4)
            rm == Field(self, 3, 0)
            is == Field(self, 11, 8)
            nn == get_range(self.arm_current_execute, 7, 0)
            old_c == is_flag_set(rf, "C")
        IN
        IF ~check_condition_code(rf, condition) THEN Ret(self, req)
        ELSE IF i_flag # 1 /\ r_flag = 1 /\ rs = 15 THEN Panic(self, req)
        ELSE
        LET shift_amount == IF r_flag = 1 THEN Bits(get_register(rf, rs, 0), 7, 0)
                            ELSE Field(self, 11, 7)
            operand1 == IF i_flag # 1 /\ r_flag = 1 THEN get_register(rf, rn, 12)
                        ELSE get_register(rf, rn, 8)
            sh == IF i_flag = 1 THEN
                      [result |-> rotate_right(nn, is * 2),
                       carry |-> IF is = 0 THEN old_c ELSE is_bit_set(nn, is * 2 - 1),
                       there_is_shift |-> FALSE]
                  ELSE barrel_shifter(
                           IF r_flag = 1 THEN get_register(rf, rm, 12)
                           ELSE get_register(rf, rm, 8),
                           shift_type, shift_amount, old_c, r_flag = 1)
            res == alu_operation(rf, operand1, sh.result, opcode)
            rf1 == IF ~is_test_opcode(opcode) THEN write_register(rf, rd, res.result)
                   ELSE rf
            uf == IF is_test_opcode(opcode) \/ s_flag = 1 THEN
                      update_flags(rf1, res.result, opcode, rd, res.c, sh.carry, res.v)
                  ELSE [rf |-> rf1, panic |-> FALSE]
            cpu1 == [self EXCEPT !.rf = uf.rf]
        IN
        IF uf.panic THEN Panic(cpu1, req)
        ELSE IF sh.there_is_shift THEN
            Ret([cpu1 EXCEPT !.data_is_fetch = FALSE, !.instruction_step = STEP1],
                [req EXCEPT !.bus_cycle = "INTERNAL"])
        ELSE IF rd = 15 /\ ~is_test_opcode(opcode) THEN
            Ret([cpu1 EXCEPT !.arm_instruction_queue = << >>,
                             !.data_is_fetch = FALSE,
                             !.instruction_step = STEP2],
                [req EXCEPT !.bus_cycle = "NONSEQUENTIAL"])
        ELSE Ret(cpu1, req)
      [] self.instruction_step = STEP1 ->
        IF rd = 15 /\ ~is_test_opcode(opcode) THEN
            Ret([self EXCEPT !.arm_instruction_queue = << >>,
                            !.data_is_fetch = FALSE,
                            !.instruction_step = STEP2],
                [req EXCEPT !.bus_cycle = "NONSEQUENTIAL"])
        ELSE Ret([self EXCEPT !.instruction_step = STEP0], req)
      [] self.instruction_step = STEP2 ->
        Ret([self EXCEPT !.instruction_step = STEP3],
            [req EXCEPT !.address = get_register(rf, 15, 0)])
      [] self.instruction_step = STEP3 ->
        IF s_flag = 1 /\ get_spsr_panics(rf) THEN Panic(self, req)
        ELSE
        LET rf1 == IF s_flag = 1 THEN write_cpsr(rf, get_spsr(rf)).rf ELSE rf IN
        Ret([self EXCEPT !.rf = write_register(rf1, 15,
                                   wrapping_sub(get_register(rf1, 15, 0), U(4))),
                        !.instruction_step = STEP0],
            [req EXCEPT !.address = get_register(rf1, 15, 4)])
      [] OTHER -> Panic(self, req)

arm_branch_and_exchange(self, req, rsp) ==
    LET condition == Field(self, 31, 28)
        rn == Field(self, 3, 0)
        rf == self.rf
        use_thumb_mode == is_bit_set(get_register(rf, rn, 8), 0)
        destination_address == clear_bit(get_register(rf, rn, 8), 0)
    IN
    IF ~check_condition_code(rf, condition) THEN Ret(self, req)
    ELSE
    CASE self.instruction_step = STEP0 ->
        Ret([self EXCEPT !.arm_instruction_queue = << >>,
                        !.data_is_fetch = FALSE,
                        !.instruction_step = STEP1],
            [req EXCEPT !.bus_cycle = "NONSEQUENTIAL"])
      [] self.instruction_step = STEP1 ->
        Ret([self EXCEPT !.data_is_fetch = FALSE, !.instruction_step = STEP2],
            [req EXCEPT !.mas = IF use_thumb_mode THEN "HALFWORD" ELSE "WORD",
                        !.address = destination_address,
                        !.bus_cycle = "SEQUENTIAL"])
      [] self.instruction_step = STEP2 ->
        IF use_thumb_mode THEN
            Ret([self EXCEPT
                    !.arm_instruction_queue = Append(@,
                        [data |-> IF is_bit_clear(self.last_used_address, 1)
                                  THEN get_range(rsp.data, 15, 0)
                                  ELSE get_range(rsp.data, 31, 16),
                         addr |-> rsp.addr]),
                    !.rf = write_cpsr(
                               write_register(rf, 15, wrapping_sub(destination_address, U(2))),
                               set_bit(get_cpsr(rf), 5)).rf,
                    !.instruction_step = STEP0],
                [req EXCEPT !.mas = "HALFWORD",
                            !.address = wrapping_add(destination_address, U(2)),
                            !.bus_cycle = "SEQUENTIAL"])
        ELSE
            Ret([self EXCEPT
                    !.arm_instruction_queue = Append(@, [data |-> rsp.data, addr |-> rsp.addr]),
                    !.rf = write_cpsr(
                               write_register(rf, 15, wrapping_sub(destination_address, U(4))),
                               clear_bit(get_cpsr(rf), 5)).rf,
                    !.instruction_step = STEP0],
                [req EXCEPT !.mas = "WORD",
                            !.address = wrapping_add(destination_address, U(4)),
                            !.bus_cycle = "SEQUENTIAL"])
      [] OTHER -> Panic(self, req)

\* (current_pc as i32 + offset + 8) as u32: the sum is taken modulo 2^32 (the
\* programs of this model stay far from the i32 overflow of a debug build).
arm_branch(self, req, overflow_checks) ==
    LET condition == Field(self, 31, 28)
        opcode == Field(self, 24, 24)
        nn == get_range(self.arm_current_execute, 23, 0)
        rf == self.rf
        current_pc == get_register(rf, 15, 0)
    IN
    IF ~check_condition_code(rf, condition) THEN Ret(self, req)
    ELSE
    CASE self.instruction_step = STEP0 ->
        LET nn1 == IF is_bit_set(nn, 23) THEN or(nn, W(\hFF00, \h0000)) ELSE nn
            offset == shl(nn1, 2)
            rf1 == IF opcode = 1 THEN write_register(rf, 14, wrapping_add(current_pc, U(4)))
                   ELSE rf
            \* the i32 addition a + b leaves the range of i32
            add_i32_overflows(a, b) ==
                (31 \in a) = (31 \in b) /\ (31 \in wrapping_add(a, b)) # (31 \in a)
        IN
        \* current_pc as i32 + offset + 8
        IF overflow_checks
            /\ (\/ add_i32_overflows(current_pc, offset)
                \/ add_i32_overflows(wrapping_add(current_pc, offset), U(8)))
        THEN Panic([self EXCEPT !.arm_instruction_queue = << >>,
                               !.data_is_fetch = FALSE,
                               !.instruction_step = STEP1,
                               !.rf = rf1],
                   [req EXCEPT !.bus_cycle = "NONSEQUENTIAL"])
        ELSE
        Ret([self EXCEPT !.arm_instruction_queue = << >>,
                        !.data_is_fetch = FALSE,
                        !.instruction_step = STEP1,
                        !.rf = write_register(rf1, 15,
                                   wrapping_add(wrapping_add(current_pc, offset), U(8)))],
            [req EXCEPT !.bus_cycle = "NONSEQUENTIAL"])
      [] self.instruction_step = STEP1 ->
        Ret([self EXCEPT !.instruction_step = STEP2],
            [req EXCEPT !.address = current_pc])
      [] self.instruction_step = STEP2 ->
        Ret([self EXCEPT !.rf = write_register(rf, 15,
                                   wrapping_sub(get_register(rf, 15, 0), U(4))),
                        !.instruction_step = STEP0],
            [req EXCEPT !.address = wrapping_add(current_pc, U(4))])
      [] OTHER -> Panic(self, req)

\* Variant of arm_single_data_transfer in which STRB drives the byte on the
\* lowest lane only
arm_single_data_transfer_byte_on_one_lane(self, req, rsp) ==
    LET condition == Field(self, 31, 28)
        l_flag == Field(self, 20, 20)
        rn == Field(self, 19, 16)
        rd == Field(self, 15, 12)
        p_flag == Field(self, 24, 24)
        tw_flag == Field(self, 21, 21)
        b_flag == Field(self, 22, 22)
        rf == self.rf
        \* the part common to load and store, done at STEP1 only
        i_flag == Field(self, 25, 25)
        u_flag == Field(self, 23, 23)
        immediate == get_range(self.arm_current_execute, 11, 0)
        shift_amount == Field(self, 11, 7)
        shift_type == Field(self, 6, 5)
        rm == Field(self, 3, 0)
        address_to_mem == get_register(rf, rn, 8)
        offset == IF i_flag = 0 THEN immediate
                  ELSE barrel_shifter(get_register(rf, rm, 0), shift_type, shift_amount,
                                      is_flag_set(rf, "C"), FALSE).result
        address_to_write == IF u_flag = 1 THEN wrapping_add(address_to_mem, offset)
                            ELSE wrapping_sub(address_to_mem, offset)
        req1 == [req EXCEPT
                   !.address = IF p_flag = 1 THEN address_to_write ELSE address_to_mem,
                   !.n_trans = IF p_flag # 1 /\ tw_flag = 1 THEN "LOW" ELSE @,
                   !.mas = IF b_flag = 1 THEN "BYTE" ELSE @]
        rf_base == IF p_flag = 0 \/ tw_flag = 1 THEN write_register(rf, rn, address_to_write)
                   ELSE rf
    IN
    IF ~check_condition_code(rf, condition) THEN Ret(self, req)
    ELSE IF self.instruction_step = STEP1 /\ i_flag # 0 /\ rm = 15 THEN Panic(self, req)
    ELSE IF l_flag = 1 THEN
        CASE self.instruction_step = STEP0 ->
            Ret([self EXCEPT !.instruction_step = STEP1],
                [req EXCEPT !.bus_cycle = "NONSEQUENTIAL"])
          [] self.instruction_step = STEP1 ->
            Ret([self EXCEPT !.data_is_fetch = FALSE,
                            !.rf = rf_base,
                            !.instruction_step = STEP2],
                [req1 EXCEPT !.bus_cycle = "INTERNAL"])
          [] self.instruction_step = STEP2 ->
            LET off == Bits(self.last_used_address, 1, 0)
                data_to_write == IF b_flag = 1 THEN get_range(rsp.data, off * 8 + 7, off * 8)
                                 ELSE rotate_right(rsp.data, off * 8)
                rf1 == write_register(rf, rd, data_to_write)
            IN
            IF rd = 15 THEN
                Ret([self EXCEPT !.rf = rf1,
                                !.data_is_fetch = FALSE,
                                !.arm_instruction_queue = << >>,
                                !.instruction_step = STEP3],
                    [req EXCEPT !.bus_cycle = "NONSEQUENTIAL"])
            ELSE
                Ret([self EXCEPT !.rf = rf1,
                                !.data_is_fetch = FALSE,
                                !.instruction_step = STEP0],
                    [req EXCEPT !.bus_cycle = "SEQUENTIAL"])
          [] self.instruction_step = STEP3 ->
            Ret([self EXCEPT !.instruction_step = STEP4],
                [req EXCEPT !.address = get_register(rf, 15, 0)])
          [] self.instruction_step = STEP4 ->
            Ret([self EXCEPT !.rf = write_register(rf, 15,
                                       wrapping_sub(get_register(rf, 15, 0), U(4))),
                            !.instruction_step = STEP0],
                [req EXCEPT !.address = get_register(rf, 15, 4)])
    ELSE
        CASE self.instruction_step = STEP0 ->
            Ret([self EXCEPT !.instruction_step = STEP1],
                [req EXCEPT !.bus_cycle = "NONSEQUENTIAL"])
          [] self.instruction_step = STEP1 ->
            LET data == get_register(rf, rd, 12)
                byte == and(data, U(255))
            IN
            Ret([self EXCEPT !.rf = rf_base,
                            !.data_is_fetch = FALSE,
                            !.instruction_step = STEP0],
                [req1 EXCEPT !.data = IF b_flag = 1
                                      THEN byte
                                      ELSE data,
                             !.nr_w = "HIGH"])
          [] OTHER -> Panic(self, req)

arm_single_data_transfer(self, req, rsp) ==
    LET condition == Field(self, 31, 28)
        l_flag == Field(self, 20, 20)
        rn == Field(self, 19, 16)
        rd == Field(self, 15, 12)
        p_flag == Field(self, 24, 24)
        tw_flag == Field(self, 21, 21)
        b_flag == Field(self, 22, 22)
        rf == self.rf
        \* the part common to load and store, done at STEP1 only
        i_flag == Field(self, 25, 25)
        u_flag == Field(self, 23, 23)
        immediate == get_range(self.arm_current_execute, 11, 0)
        shift_amount == Field(self, 11, 7)
        shift_type == Field(self, 6, 5)
        rm == Field(self, 3, 0)
        address_to_mem == get_register(rf, rn, 8)
        offset == IF i_flag = 0 THEN immediate
                  ELSE barrel_shifter(get_register(rf, rm, 0), shift_type, shift_amount,
                                      is_flag_set(rf, "C"), FALSE).result
        address_to_write == IF u_flag = 1 THEN wrapping_add(address_to_mem, offset)
                            ELSE wrapping_sub(address_to_mem, offset)
        req1 == [req EXCEPT
                   !.address = IF p_flag = 1 THEN address_to_write ELSE address_to_mem,
                   !.n_trans = IF p_flag # 1 /\ tw_flag = 1 THEN "LOW" ELSE @,
                   !.mas = IF b_flag = 1 THEN "BYTE" ELSE @]
        rf_base == IF p_flag = 0 \/ tw_flag = 1 THEN write_register(rf, rn, address_to_write)
                   ELSE rf
    IN
    IF ~check_condition_code(rf, condition) THEN Ret(self, req)
    ELSE IF self.instruction_step = STEP1 /\ i_flag # 0 /\ rm = 15 THEN Panic(self, req)
    ELSE IF l_flag = 1 THEN
        CASE self.instruction_step = STEP0 ->
            Ret([self EXCEPT !.instruction_step = STEP1],
                [req EXCEPT !.bus_cycle = "NONSEQUENTIAL"])
          [] self.instruction_step = STEP1 ->
            Ret([self EXCEPT !.data_is_fetch = FALSE,
                            !.rf = rf_base,
                            !.instruction_step = STEP2],
                [req1 EXCEPT !.bus_cycle = "INTERNAL"])
          [] self.instruction_step = STEP2 ->
            LET off == Bits(self.last_used_address, 1, 0)
                data_to_write == IF b_flag = 1 THEN get_range(rsp.data, off * 8 + 7, off * 8)
                                 ELSE rotate_right(rsp.data, off * 8)
                rf1 == write_register(rf, rd, data_to_write)
            IN
            IF rd = 15 THEN
                Ret([self EXCEPT !.rf = rf1,
                                !.data_is_fetch = FALSE,
                                !.arm_instruction_queue = << >>,
                                !.instruction_step = STEP3],
                    [req EXCEPT !.bus_cycle = "NONSEQUENTIAL"])
            ELSE
                Ret([self EXCEPT !.rf = rf1,
                                !.data_is_fetch = FALSE,
                                !.instruction_step = STEP0],
                    [req EXCEPT !.bus_cycle = "SEQUENTIAL"])
          [] self.instruction_step = STEP3 ->
            Ret([self EXCEPT !.instruction_step = STEP4],
                [req EXCEPT !.address = get_register(rf, 15, 0)])
          [] self.instruction_step = STEP4 ->
            Ret([self EXCEPT !.rf = write_register(rf, 15,
                                       wrapping_sub(get_register(rf, 15, 0), U(4))),
                            !.instruction_step = STEP0],
                [req EXCEPT !.address = get_register(rf, 15, 4)])
    ELSE
        CASE self.instruction_step = STEP0 ->
            Ret([self EXCEPT !.instruction_step = STEP1],
                [req EXCEPT !.bus_cycle = "NONSEQUENTIAL"])
          [] self.instruction_step = STEP1 ->
            LET data == get_register(rf, rd, 12)
                byte == and(data, U(255))
            IN
            Ret([self EXCEPT !.rf = rf_base,
                            !.data_is_fetch = FALSE,
                            !.instruction_step = STEP0],
                [req1 EXCEPT !.data = IF b_flag = 1
                                      THEN byte \cup shl(byte, 8) \cup shl(byte, 16)
                                                \cup shl(byte, 24)
                                      ELSE data,
                             !.nr_w = "HIGH"])
          [] OTHER -> Panic(self, req)

\* ((x as i8) as i32) as u32 and ((x as i16) as i32) as u32
sext8(x) == IF 7 \in x THEN (x \cap (0..7)) \cup (8..31) ELSE x \cap (0..7)
sext16_zero_extends(x) == x \cap (0..15)
sext16(x) == IF 15 \in x THEN (x \cap (0..15)) \cup (16..31) ELSE x \cap (0..15)

\* The sums last_used_address + 4 are taken modulo 2^32.
arm_hw_transfer(self, req, rsp) ==
    LET condition == Field(self, 31, 28)
        p_flag == Field(self, 24, 24)
        u_flag == Field(self, 23, 23)
        i_flag == Field(self, 22, 22)
        w_flag == Field(self, 21, 21)
        l_flag == Field(self, 20, 20)
        rn == Field(self, 19, 16)
        rd == Field(self, 15, 12)
        imm_offset_h == Field(self, 11, 8)
        opcode == Field(self, 6, 5)
        rm == Field(self, 3, 0)
        rf == self.rf
        address_to_mem == get_register(rf, rn, 8)
        \* the part done at STEP1 only
        offset == IF i_flag = 1 THEN U(imm_offset_h * 16 + rm) ELSE get_register(rf, rm, 0)
        address_to_write == IF u_flag = 1 THEN wrapping_add(address_to_mem, offset)
                            ELSE wrapping_sub(address_to_mem, offset)
        req1 == [req EXCEPT !.address = IF p_flag = 1 THEN address_to_write
                                        ELSE address_to_mem]
        rf_base == IF p_flag = 0 \/ w_flag = 1 THEN write_register(rf, rn, address_to_write)
                   ELSE rf
    IN
    IF ~check_condition_code(rf, condition) THEN Ret(self, req)
    ELSE IF opcode = 0 THEN Panic(self, req)
    ELSE IF self.instruction_step = STEP1 /\ i_flag # 1 /\ rm = 15 THEN Panic(self, req)
    ELSE IF self.instruction_step = STEP0 THEN
        Ret([self EXCEPT !.instruction_step = STEP1],
            [req EXCEPT !.bus_cycle = "NONSEQUENTIAL"])
    ELSE IF l_flag = 1 THEN
        CASE self.instruction_step = STEP1 ->
            Ret([self EXCEPT !.data_is_fetch = FALSE,
                            !.rf = rf_base,
                            !.instruction_step = STEP2],
                [req1 EXCEPT !.bus_cycle = "INTERNAL",
                             !.mas = IF opcode = 2 THEN "BYTE" ELSE "HALFWORD"])
          [] self.instruction_step = STEP2 ->
            LET off == Bits(self.last_used_address, 1, 0)
                byte == sext8(get_range(rsp.data, off * 8 + 7, off * 8))
                half0 == IF off < 2 THEN get_range(rsp.data, 15, 0)
                         ELSE get_range(rsp.data, 31, 16)
                half == IF off % 2 = 1 THEN rotate_right(half0, 8) ELSE half0
                data_to_write ==
                    IF opcode = 2 THEN byte
                    ELSE IF opcode = 3 THEN (IF off % 2 = 1 THEN byte ELSE sext16(half))
                    ELSE half
                rf1 == write_register(rf, rd, data_to_write)
            IN
            IF rd = 15 THEN
                Ret([self EXCEPT !.rf = rf1,
                                !.data_is_fetch = FALSE,
                                !.arm_instruction_queue = << >>,
                                !.instruction_step = STEP3],
                    [req EXCEPT !.bus_cycle = "NONSEQUENTIAL"])
            ELSE
                Ret([self EXCEPT !.rf = rf1,
                                !.data_is_fetch = FALSE,
                                !.instruction_step = STEP0],
                    [req EXCEPT !.bus_cycle = "SEQUENTIAL"])
          [] self.instruction_step = STEP3 ->
            Ret([self EXCEPT !.instruction_step = STEP4],
                [req EXCEPT !.address = get_register(rf, 15, 0)])
          [] self.instruction_step = STEP4 ->
            Ret([self EXCEPT !.rf = write_register(rf, 15,
                                       wrapping_sub(get_register(rf, 15, 0), U(4))),
                            !.instruction_step = STEP0],
                [req EXCEPT !.address = get_register(rf, 15, 4)])
    ELSE IF opcode = 1 THEN
        IF self.instruction_step = STEP1 THEN
            LET data == get_register(rf, rd, 12) IN
            Ret([self EXCEPT !.rf = rf_base,
                            !.data_is_fetch = FALSE,
                            !.instruction_step = STEP0],
                [req1 EXCEPT !.mas = "HALFWORD",
                             !.data = or(and(data, W(0, \hFFFF)), shl(data, 16)),
                             !.nr_w = "HIGH"])
        ELSE Panic(self, req)
    ELSE IF opcode = 2 THEN
        CASE self.instruction_step = STEP1 ->
            IF Bits(req1.address, 2, 0) # 0 THEN Panic(self, req1)
            ELSE IF rd % 2 # 0 \/ rd = 14 THEN Panic(self, req1)
            ELSE Ret([self EXCEPT !.data_is_fetch = FALSE, !.instruction_step = STEP2], req1)
          [] self.instruction_step = STEP2 ->
            Ret([self EXCEPT !.data_is_fetch = FALSE,
                            !.rf = write_register(rf, rd, rsp.data),
                            !.instruction_step = STEP3],
                [req EXCEPT !.bus_cycle = "INTERNAL",
                            !.address = wrapping_add(self.last_used_address, U(4))])
          [] self.instruction_step = STEP3 ->
            IF rd + 1 > 15 THEN Panic([self EXCEPT !.data_is_fetch = FALSE], req)
            ELSE Ret([self EXCEPT !.data_is_fetch = FALSE,
                                 !.rf = write_register(rf, rd + 1, rsp.data),
                                 !.instruction_step = STEP0],
                     req)
          [] OTHER -> Panic(self, req)
    ELSE
        CASE self.instruction_step = STEP1 ->
            Ret([self EXCEPT !.data_is_fetch = FALSE, !.instruction_step = STEP2],
                [req1 EXCEPT !.data = get_register(rf, rd, 0), !.nr_w = "HIGH"])
          [] self.instruction_step = STEP2 ->
            IF rd + 1 > 15 THEN
                Panic(self, [req EXCEPT !.address = wrapping_add(self.last_used_address, U(4))])
            ELSE Ret([self EXCEPT !.data_is_fetch = FALSE, !.instruction_step = STEP0],
                     [req EXCEPT !.address = wrapping_add(self.last_used_address, U(4)),
                                 !.data = get_register(rf, rd + 1, 0),
                                 !.nr_w = "HIGH"])
          [] OTHER -> Panic(self, req)

\* The software interrupt that saves the address of the prefetch in r14
arm_swi_links_to_prefetch(self, req) ==
    LET condition == Field(self, 31, 28)
        rf == self.rf
    IN
    IF ~check_condition_code(rf, condition) THEN Ret(self, req)
    ELSE
    CASE self.instruction_step = STEP0 ->
        Ret([self EXCEPT !.arm_instruction_queue = << >>,
                        !.data_is_fetch = FALSE,
                        !.instruction_step = STEP1],
            [req EXCEPT !.bus_cycle = "NONSEQUENTIAL"])
      [] self.instruction_step = STEP1 ->
        LET current_cpsr == get_cpsr(rf)
            w1 == write_cpsr(rf, or(and(current_cpsr, W(\hFFFF, \hFFE0)), U(SUPERVISOR)))
            w2 == write_spsr(w1.rf, current_cpsr)
            rf1 == write_register(w2.rf, 14, get_register(w2.rf, 15, 8))
            rf2 == write_register(rf1, 15, U(4))
        IN
        IF ~w1.ok THEN Panic(self, req)
        ELSE IF ~w2.ok THEN Panic([self EXCEPT !.rf = w1.rf], req)
        ELSE Ret([self EXCEPT !.rf = rf2, !.instruction_step = STEP2],
                 [req EXCEPT !.address = get_register(rf2, 15, 4)])
      [] self.instruction_step = STEP2 ->
        Ret([self EXCEPT !.instruction_step = STEP0],
            [req EXCEPT !.address = get_register(rf, 15, 8)])
      [] OTHER -> Panic(self, req)

arm_swi(self, req) ==
    LET condition == Field(self, 31, 28)
        rf == self.rf
    IN
    IF ~check_condition_code(rf, condition) THEN Ret(self, req)
    ELSE
    CASE self.instruction_step = STEP0 ->
        Ret([self EXCEPT !.arm_instruction_queue = << >>,
                        !.data_is_fetch = FALSE,
                        !.instruction_step = STEP1],
            [req EXCEPT !.bus_cycle = "NONSEQUENTIAL"])
      [] self.instruction_step = STEP1 ->
        LET current_cpsr == get_cpsr(rf)
            w1 == write_cpsr(rf, or(and(current_cpsr, W(\hFFFF, \hFFE0)), U(SUPERVISOR)))
            w2 == write_spsr(w1.rf, current_cpsr)
            rf1 == write_register(w2.rf, 14, get_register(w2.rf, 15, 4))
            rf2 == write_register(rf1, 15, U(4))
        IN
        IF ~w1.ok THEN Panic(self, req)
        ELSE IF ~w2.ok THEN Panic([self EXCEPT !.rf = w1.rf], req)
        ELSE Ret([self EXCEPT !.rf = rf2, !.instruction_step = STEP2],
                 [req EXCEPT !.address = get_register(rf2, 15, 4)])
      [] self.instruction_step = STEP2 ->
        Ret([self EXCEPT !.instruction_step = STEP0],
            [req EXCEPT !.address = get_register(rf, 15, 8)])
      [] OTHER -> Panic(self, req)

arm_undefined(self, req) ==
    LET condition == Field(self, 31, 28)
        rf == self.rf
    IN
    IF ~check_condition_code(rf, condition) THEN Ret(self, req)
    ELSE
    CASE self.instruction_step = STEP0 ->
        Ret([self EXCEPT !.arm_instruction_queue = << >>,
                        !.data_is_fetch = FALSE,
                        !.instruction_step = STEP1],
            [req EXCEPT !.bus_cycle = "NONSEQUENTIAL"])
      [] self.instruction_step = STEP1 ->
        LET current_cpsr == get_cpsr(rf)
            w1 == write_cpsr(rf, or(and(current_cpsr, W(\hFFFF, \hFFE0)), U(UND)))
            w2 == write_spsr(w1.rf, current_cpsr)
            rf1 == write_register(w2.rf, 14, get_register(w2.rf, 15, 4))
            rf2 == write_register(rf1, 15, {})
        IN
        Ret([self EXCEPT !.rf = rf2, !.instruction_step = STEP2],
            [req EXCEPT !.address = get_register(rf2, 15, 4)])
      [] self.instruction_step = STEP2 ->
        Ret([self EXCEPT !.instruction_step = STEP3],
            [req EXCEPT !.address = get_register(rf, 15, 8), !.bus_cycle = "INTERNAL"])
      [] self.instruction_step = STEP3 ->
        Ret([self EXCEPT !.data_is_fetch = FALSE, !.instruction_step = STEP0], req)
      [] OTHER -> Panic(self, req)

arm_psr_transfer_mrs(self, req) ==
    LET condition == Field(self, 31, 28)
        psr_flag == Field(self, 22, 22)
        rd == Field(self, 15, 12)
        rf == self.rf
    IN
    IF ~check_condition_code(rf, condition) THEN Ret(self, req)
    ELSE IF rd = 15 THEN Panic(self, req)
    ELSE IF psr_flag # 0 /\ get_spsr_panics(rf) THEN Panic(self, req)
    ELSE Ret([self EXCEPT !.rf = write_register(rf, rd,
                                    IF psr_flag = 0 THEN get_cpsr(rf) ELSE get_spsr(rf))],
             req)

arm_psr_transfer_msr(self, req) ==
    LET condition == Field(self, 31, 28)
        i_flag == Field(self, 25, 25)
        psr_flag == Field(self, 22, 22)
        f_flag == Field(self, 19, 19)
        c_flag == Field(self, 16, 16)
        rm == Field(self, 3, 0)
        shift == Field(self, 11, 8)
        imm == get_range(self.arm_current_execute, 7, 0)
        rf == self.rf
    IN
    IF ~check_condition_code(rf, condition) THEN Ret(self, req)
    ELSE IF i_flag = 0 /\ rm = 15 THEN Panic(self, req)
    ELSE IF psr_flag = 1 /\ get_spsr_panics(rf) THEN Panic(self, req)
    ELSE
    LET source_operand == IF i_flag = 0 THEN get_register(rf, rm, 0)
                          ELSE rotate_right(imm, shift * 2)
        to_modify0 == IF psr_flag = 1 THEN get_spsr(rf) ELSE get_cpsr(rf)
        to_modify1 == IF c_flag = 1 /\ get_mode(rf) # USER
                      THEN or(and(to_modify0, W(\hFFFF, \hFF00)), and(source_operand, U(255)))
                      ELSE to_modify0
        to_modify == IF f_flag = 1
                     THEN or(and(to_modify1, W(\h0FFF, \hFFFF)),
                             and(source_operand, W(\hF000, \h0000)))
                     ELSE to_modify1
        w == IF psr_flag = 1 THEN write_spsr(rf, to_modify) ELSE write_cpsr(rf, to_modify)
    IN
    IF ~w.ok THEN Panic(self, req) ELSE Ret([self EXCEPT !.rf = w.rf], req)

arm_single_data_swap(self, req, rsp) ==
    LET condition == Field(self, 31, 28)
        b_flag == Field(self, 22, 22)
        rn == Field(self, 19, 16)
        rd == Field(self, 15, 12)
        rm == Field(self, 3, 0)
        offset == Bits(self.last_used_address, 1, 0)
        rf == self.rf
    IN
    IF rd = 15 \/ rm = 15 \/ rn = 15 THEN Panic(self, req)
    ELSE IF ~check_condition_code(rf, condition) THEN Ret(self, req)
    ELSE
    CASE self.instruction_step = STEP0 ->
        Ret([self EXCEPT !.instruction_step = STEP1],
            [req EXCEPT !.bus_cycle = "NONSEQUENTIAL"])
      [] self.instruction_step = STEP1 ->
        Ret([self EXCEPT !.data_is_fetch = FALSE, !.instruction_step = STEP2],
            [req EXCEPT !.address = get_register(rf, rn, 0),
                        !.mas = IF b_flag = 0 THEN "WORD" ELSE "BYTE",
                        !.n_opc = "HIGH",
                        !.lock = "HIGH",
                        !.bus_cycle = "NONSEQUENTIAL"])
      [] self.instruction_step = STEP2 ->
        LET byte == get_range(get_register(rf, rm, 0), 7, 0)
            data == IF b_flag = 0 THEN get_register(rf, rm, 0)
                    ELSE byte \cup shl(byte, 8) \cup shl(byte, 16) \cup shl(byte, 24)
            data_to_write == IF b_flag = 0 THEN rotate_right(rsp.data, 8 * offset)
                             ELSE get_range(rsp.data, offset * 8 + 7, offset * 8)
        IN
        Ret([self EXCEPT !.data_is_fetch = FALSE,
                        !.rf = write_register(rf, rd, data_to_write),
                        !.instruction_step = STEP3],
            [req EXCEPT !.address = get_register(rf, rn, 0),
                        !.data = data,
                        !.mas = IF b_flag = 0 THEN "WORD" ELSE "BYTE",
                        !.nr_w = "HIGH",
                        !.n_opc = "HIGH",
                        !.lock = "HIGH",
                        !.bus_cycle = "INTERNAL"])
      [] self.instruction_step = STEP3 ->
        Ret([self EXCEPT !.data_is_fetch = FALSE, !.instruction_step = STEP0], req)
      [] OTHER -> Panic(self, req)

\* a * b modulo 2^64, by the products of the bytes of a and b
Byte(w, k) == Bits(w, 8 * k + 7, 8 * k)

RECURSIVE SumProducts(_, _, _, _)
\* The sum of Byte(a, j) * Byte(b, k - j) for j in i..k
SumProducts(a, b, k, i) ==
    IF i > k THEN 0
    ELSE Byte(a, i) * Byte(b, k - i) + SumProducts(a, b, k, i + 1)

RECURSIVE MulBytes(_, _, _, _)
MulBytes(a, b, c, k) ==
    IF k = 8 THEN {}
    ELSE LET s == c + SumProducts(a, b, k, 0)
         IN  {i + 8 * k : i \in BitsOf(s % 256, 8)}
                 \cup MulBytes(a, b, s \div 256, k + 1)

mul64(a, b) == MulBytes(a, b, 0, 0)

\* The overflow of an addition of two u64 and of two i64
add64_overflows(a, b) == ult(add64(a, b), a)
add64_overflows_signed(a, b) == ((63 \in a) = (63 \in b)) /\ ((63 \in add64(a, b)) # (63 \in a))

\* overflow_checks tells whether the build panics on an arithmetic overflow (a
\* debug build) or wraps (a release build).  The counter of a release build
\* that wrapped below zero is kept as a negative number: it stands for 2^32 - n.
arm_multiply(self, req, overflow_checks) ==
    LET condition == Field(self, 31, 28)
        opcode == Field(self, 24, 21)
        s_flag == Field(self, 20, 20)
        rd == Field(self, 19, 16)
        rn == Field(self, 15, 12)
        rs == Field(self, 11, 8)
        rm == Field(self, 3, 0)
        rf == self.rf
        req1 == [req EXCEPT !.bus_cycle = "INTERNAL"]
    IN
    IF ~check_condition_code(rf, condition) THEN Ret(self, req)
    ELSE
    CASE self.instruction_step = STEP0 ->
        Ret([self EXCEPT
                !.instruction_step = STEP1,
                !.instruction_counter_step =
                    4 - (leading_zeros(get_register(rf, rs, 0)) \div 8)
                      + (IF opcode = 0 THEN 0 ELSE IF opcode = 5 \/ opcode = 7 THEN 2 ELSE 1)],
            req1)
      [] self.instruction_step = STEP1 ->
        LET cpu1 == [self EXCEPT !.data_is_fetch = FALSE]
            counter == self.instruction_counter_step - 1
            op_s == get_register(rf, rs, 0)
            op_m == get_register(rf, rm, 0)
            op_n == get_register(rf, rn, 0)
            op_d == get_register(rf, rd, 0)
            acc == op_n \cup {i + 32 : i \in op_d}
            product == IF opcode \in {6, 7} THEN mul64(sext64(op_s), sext64(op_m))
                       ELSE mul64(op_s, op_m)
            addend == IF opcode = 1 THEN op_n ELSE IF opcode \in {5, 7} THEN acc ELSE {}
            result == add64(product, addend)
            overflow == IF opcode = 7 THEN add64_overflows_signed(product, addend)
                        ELSE add64_overflows(product, addend)
            rf1 == IF opcode <= 1 THEN write_register(rf, rd, low32(result))
                   ELSE write_register(write_register(rf, rd, get_range(result, 63, 32)),
                                       rn, low32(result))
            rf2 == IF s_flag # 1 THEN rf1
                   ELSE IF opcode <= 1
                   THEN write_n(write_z(rf1, low32(result) = {}), is_bit_set(result, 31))
                   ELSE write_n(write_z(rf1, result = {}), is_bit_set(result, 63))
        IN
        IF self.instruction_counter_step = 0 /\ overflow_checks THEN Panic(cpu1, req1)
        ELSE IF counter # 0 THEN
            Ret([cpu1 EXCEPT !.instruction_counter_step = counter], req1)
        ELSE IF opcode \in {2, 3} THEN
            Panic([cpu1 EXCEPT !.instruction_counter_step = counter], req1)
        ELSE IF overflow /\ overflow_checks THEN
            Panic([cpu1 EXCEPT !.instruction_counter_step = counter], req1)
        ELSE
            Ret([cpu1 EXCEPT !.instruction_counter_step = counter,
                             !.rf = rf2,
                             !.instruction_step = STEP0],
                [req1 EXCEPT !.bus_cycle = "SEQUENTIAL"])
      [] OTHER -> Panic(self, req1)

\* RegisterFile::get_user_register and write_user_register are called by the
\* block transfers with the S bit; they address the registers of the USER bank
\* whatever the current mode is.
get_user_register(rf, index, pc_increment) ==
    IF index = 15 THEN wrapping_add(rf.registers[15], U(pc_increment))
    ELSE rf.registers[index]

write_user_register(rf, index, value) == [rf EXCEPT !.registers[index] = value]

\* Variant of modify_register_ldm_stm that takes the step for an empty list too
modify_register_ldm_stm_empty_as_one(rf, was_list_empy, w_flag, u_flag, rn, step) ==
    IF w_flag = 1 /\ u_flag = 0 THEN
        write_register(rf, rn, wrapping_sub(get_register(rf, rn, 0), U(step)))
    ELSE IF w_flag = 1 /\ u_flag = 1 THEN
        write_register(rf, rn, wrapping_add(get_register(rf, rn, 0), U(step)))
    ELSE rf

modify_register_ldm_stm(rf, was_list_empy, w_flag, u_flag, rn, step) ==
    LET amount == IF ~was_list_empy THEN U(step) ELSE U(64) IN
    IF w_flag = 1 /\ u_flag = 0 THEN
        write_register(rf, rn, wrapping_sub(get_register(rf, rn, 0), amount))
    ELSE IF w_flag = 1 /\ u_flag = 1 THEN
        write_register(rf, rn, wrapping_add(get_register(rf, rn, 0), amount))
    ELSE rf

\* Variant of transfer_list with the registers in decreasing order
transfer_list_descending(r_list, first) ==
    [k \in 1..Cardinality(r_list) |->
        [address |-> wrapping_add(first, U(4 * (k - 1))),
         register |-> CHOOSE r \in r_list : Cardinality({x \in r_list : x > r}) = k - 1]]

\* The list of the pairs (address, register) pushed by the loop of STEP0: the
\* registers of r_list in increasing order, at consecutive words from first.
transfer_list(r_list, first) ==
    [k \in 1..Cardinality(r_list) |->
        [address |-> wrapping_add(first, U(4 * (k - 1))),
         register |-> CHOOSE r \in r_list : Cardinality({x \in r_list : x < r}) = k - 1]]

arm_block_data_transfer(self, req, rsp) ==
    LET condition == Field(self, 31, 28)
        p_flag == Field(self, 24, 24)
        u_flag == Field(self, 23, 23)
        s_flag == Field(self, 22, 22)
        w_flag == Field(self, 21, 21)
        l_flag == Field(self, 20, 20)
        rn == Field(self, 19, 16)
        r_list0 == get_range(self.arm_current_execute, 15, 0)
        is_rn_in_list == rn \in r_list0
        was_list_empy == r_list0 = {}
        r_list == IF r_list0 = {} THEN set_bit(r_list0, 15) ELSE r_list0
        items_to_handle == count_ones(r_list)
        rf == self.rf
        base == get_register(rf, rn, 0)
        span == IF was_list_empy THEN U(64) ELSE U(items_to_handle * 4)
        first == IF u_flag = 0 /\ p_flag = 0 THEN wrapping_add(wrapping_sub(base, span), U(4))
                 ELSE IF u_flag = 0 /\ p_flag = 1 THEN wrapping_sub(base, span)
                 ELSE IF u_flag = 1 /\ p_flag = 1 THEN wrapping_add(base, U(4))
                 ELSE base
        ics == self.instruction_counter_step
        list == self.list_transfer_op
    IN
    IF ~check_condition_code(rf, condition) THEN Ret(self, req)
    ELSE IF rn = 15 THEN Panic(self, req)
    ELSE IF self.instruction_step = STEP0 THEN
        \* the same for STM and LDM
        Ret([self EXCEPT !.list_transfer_op = transfer_list(r_list, first),
                        !.instruction_step = STEP1,
                        !.instruction_counter_step = 0],
            [req EXCEPT !.bus_cycle = "NONSEQUENTIAL"])
    ELSE IF l_flag = 0 THEN
        IF self.instruction_step = STEP1 THEN
            IF ics + 1 > Len(list) THEN Panic(self, req)
            ELSE
            LET register_to_use == list[ics + 1].register
                data == IF s_flag = 1 THEN get_user_register(rf, register_to_use, 12)
                        ELSE get_register(rf, register_to_use, 12)
                rf1 == IF ics = 0
                       THEN modify_register_ldm_stm(rf, was_list_empy, w_flag, u_flag, rn,
                                                    4 * items_to_handle)
                       ELSE rf
                done == ics + 1 = items_to_handle
            IN
            Ret([self EXCEPT !.data_is_fetch = FALSE,
                            !.rf = rf1,
                            !.instruction_counter_step = ics + 1,
                            !.instruction_step = IF done THEN STEP0 ELSE @],
                [req EXCEPT !.bus_cycle = IF done THEN "NONSEQUENTIAL" ELSE "SEQUENTIAL",
                            !.address = list[ics + 1].address,
                            !.nr_w = "HIGH",
                            !.data = data])
        ELSE Panic(self, req)
    ELSE
        CASE self.instruction_step = STEP1 ->
            IF Len(list) = 0 THEN Panic(self, req)
            ELSE
            Ret([self EXCEPT !.data_is_fetch = FALSE,
                            !.instruction_counter_step = ics + 1,
                            !.instruction_step = STEP2],
                [req EXCEPT !.bus_cycle = IF items_to_handle = 1 THEN "INTERNAL"
                                          ELSE "SEQUENTIAL",
                            !.address = list[1].address])
          [] self.instruction_step = STEP2 ->
            IF ics < 1 \/ ics > Len(list) THEN Panic(self, req)
            ELSE
            LET rf1 == IF ~is_rn_in_list
                       THEN modify_register_ldm_stm(rf, was_list_empy, w_flag, u_flag, rn, 4)
                       ELSE rf
                rf2 == IF s_flag = 0 \/ is_bit_set(r_list, 15)
                       THEN write_register(rf1, list[ics].register, rsp.data)
                       ELSE write_user_register(rf1, list[ics].register, rsp.data)
                cpu2 == [self EXCEPT !.data_is_fetch = FALSE, !.rf = rf2]
            IN
            IF items_to_handle = ics THEN
                IF is_bit_set(r_list, 15) THEN
                    IF get_spsr_panics(rf2) THEN Panic(cpu2, req)
                    ELSE Ret([cpu2 EXCEPT !.rf = write_cpsr(rf2, get_spsr(rf2)).rf,
                                          !.arm_instruction_queue = << >>,
                                          !.instruction_step = STEP3],
                             [req EXCEPT !.bus_cycle = "NONSEQUENTIAL"])
                ELSE Ret([cpu2 EXCEPT !.instruction_step = STEP0], req)
            ELSE IF ics + 1 > Len(list) THEN Panic(cpu2, req)
            ELSE
                Ret([cpu2 EXCEPT !.instruction_counter_step = ics + 1],
                    [req EXCEPT !.bus_cycle = IF ics + 1 = items_to_handle THEN "INTERNAL"
                                              ELSE @,
                                !.address = list[ics + 1].address])
          [] self.instruction_step = STEP3 ->
            Ret([self EXCEPT !.instruction_step = STEP4],
                [req EXCEPT !.address = get_register(rf, 15, 0)])
          [] self.instruction_step = STEP4 ->
            Ret([self EXCEPT !.rf = write_register(rf, 15,
                                       wrapping_sub(get_register(rf, 15, 0), U(4))),
                            !.instruction_step = STEP0],
                [req EXCEPT !.address = get_register(rf, 15, 4)])
          [] OTHER -> Panic(self, req)

(***************************************************************************)
(* ARM7TDMI::step (mod.rs)                                                 *)
(***************************************************************************)
\* The handlers of arm_instructions.rs, selected by the decoded class of the
\* current instruction.
\* The classes whose arm in the match of step is todo!(): each is given to
\* the handler that arm_instructions.rs defines for it.
arm_dispatch_other(self, req, rsp, overflow_checks) ==
    LET type == decode_arm(self.arm_current_execute) IN
    CASE type = "BlockDataTransfer" -> arm_block_data_transfer(self, req, rsp)
      [] type = "Multiply" -> arm_multiply(self, req, overflow_checks)
      [] type = "HwTransfer" -> arm_hw_transfer(self, req, rsp)
      [] type = "SoftwareInterrupt" -> arm_swi(self, req)
      [] type = "Undefined" -> arm_undefined(self, req)
      [] type = "PsrTransferMRS" -> arm_psr_transfer_mrs(self, req)
      [] type = "PsrTransferMSR" -> arm_psr_transfer_msr(self, req)
      [] type = "SingleDataSwap" -> arm_single_data_swap(self, req, rsp)
      [] OTHER -> Panic(self, req)

\* match decode_arm(self.arm_current_execute)
arm_dispatch(self, req, rsp, overflow_checks) ==
    LET type == decode_arm(self.arm_current_execute) IN
    CASE type = "DataProcessing" -> arm_data_processing(self, req)
      [] type = "BranchAndExchange" -> arm_branch_and_exchange(self, req, rsp)
      [] type = "SingleDataTransfer" -> arm_single_data_transfer(self, req, rsp)
      [] type = "Branch" -> arm_branch(self, req, overflow_checks)
      [] OTHER -> arm_dispatch_other(self, req, rsp, overflow_checks)

\* The request built at the top of step
next_request(self) ==
    [address |-> wrapping_add(get_register(self.rf, 15, 0), U(8)),
     nr_w |-> "LOW",
     mas |-> "WORD",
     n_opc |-> "LOW",
     data |-> {},
     n_trans |-> IF get_mode(self.rf) = USER THEN "LOW" ELSE "HIGH",
     lock |-> "LOW",
     t_bit |-> "LOW",
     bus_cycle |-> "SEQUENTIAL"]

\* The end of step: retire the instruction if the handler left the FSM at STEP0
\* (pop_front().unwrap() panics on an empty queue), and record the address.
\* Variant of retire that takes the next instruction at every step of the
\* current one
retire_at_any_step(m) ==
    IF m.panic THEN m
    ELSE IF m.cpu.arm_instruction_queue = << >> THEN Panic(m.cpu, m.req)
    ELSE Ret([m.cpu EXCEPT
                 !.arm_current_execute = Head(m.cpu.arm_instruction_queue).data,
                 !.current_address = Head(m.cpu.arm_instruction_queue).addr,
                 !.arm_instruction_queue = Tail(@),
                 !.rf = write_register(@, 15,
                            wrapping_add(get_register(m.cpu.rf, 15, 0), U(4))),
                 !.last_used_address = m.req.address],
             m.req)

retire(m) ==
    IF m.panic THEN m
    ELSE IF m.cpu.instruction_step = STEP0 THEN
        IF m.cpu.arm_instruction_queue = << >> THEN Panic(m.cpu, m.req)
        ELSE Ret([m.cpu EXCEPT
                     !.arm_current_execute = Head(m.cpu.arm_instruction_queue).data,
                     !.current_address = Head(m.cpu.arm_instruction_queue).addr,
                     !.arm_instruction_queue = Tail(@),
                     !.rf = write_register(@, 15,
                                wrapping_add(get_register(m.cpu.rf, 15, 0), U(4))),
                     !.last_used_address = m.req.address],
                 m.req)
    ELSE Ret([m.cpu EXCEPT !.last_used_address = m.req.address], m.req)

\* Variant of fetch that queues the word of every read
fetch_queues_data(self, rsp) ==
    [self EXCEPT
        !.arm_instruction_queue =
            IF self.data_is_reading
            THEN Append(@, [data |-> rsp.data, addr |-> rsp.addr])
            ELSE @,
        !.data_is_reading = TRUE,
        !.data_is_fetch = TRUE]

\* "A fetch was in progress: add the data to the instruction queue", and the
\* two bookkeeping flags set again
fetch(self, rsp) ==
    [self EXCEPT
        !.arm_instruction_queue =
            IF self.data_is_reading /\ self.data_is_fetch
            THEN Append(@, [data |-> rsp.data, addr |-> rsp.addr])
            ELSE @,
        !.data_is_reading = TRUE,
        !.data_is_fetch = TRUE]

\* The call of the handler of the current instruction
execute(self, rsp, overflow_checks) ==
    arm_dispatch(fetch(self, rsp), next_request(self), rsp, overflow_checks)

\* Variant of step in which a stalled call still queues the word of the
\* response
step_stall_fetches(self, rsp, overflow_checks) ==
    IF rsp.n_wait = "LOW" THEN Ret(fetch(self, rsp), next_request(self))
    ELSE retire(execute(self, rsp, overflow_checks))

\* Variant of step in which a stalled call records the address of the
\* request it returns
step_stall_records_address(self, rsp, overflow_checks) ==
    IF rsp.n_wait = "LOW"
    THEN Ret([self EXCEPT !.last_used_address = next_request(self).address],
             next_request(self))
    ELSE retire(execute(self, rsp, overflow_checks))

step(self, rsp, overflow_checks) ==
    IF rsp.n_wait = "LOW" THEN Ret(self, next_request(self))
    ELSE retire(execute(self, rsp, overflow_checks))

(***************************************************************************)
(* The harness of cpu_test.rs: a memory of words (HashMap<u32, u32>), read *)
(* with NOP as the default, serving the request of each step.             *)
(***************************************************************************)
M(ahi, alo, dhi, dlo) == W(ahi, alo) :> W(dhi, dlo)

memory_get(mem, address) == IF address \in DOMAIN mem THEN mem[address] ELSE NOP
memory_insert(mem, address, data) ==
    [a \in DOMAIN mem \cup {address} |-> IF a = address THEN data ELSE mem[a]]

\* The address of a word that was not read from the memory
NoAddress == {-1}

response_new == [data |-> NOP, n_wait |-> "HIGH", addr |-> NoAddress]

\* The body of the test loop after the call of step: the response and the memory
\* after the request req is served (rsp.addr records the address that was read)
serve(mem, rsp, req) ==
    IF req.nr_w = "LOW" THEN
        [memory |-> mem,
         response |-> [rsp EXCEPT !.data = memory_get(mem, and(req.address, W(\hFFFF, \hFFFC))),
                                  !.addr = and(req.address, W(\hFFFF, \hFFFC))]]
    ELSE
        [memory |-> memory_insert(mem, req.address, req.data), response |-> rsp]

(***************************************************************************)
(* The programs the harness runs.  The entry point is 0x08000000; the SWI  *)
(* vector is 0x00000008 and the undefined vector 0x00000004.               *)
(***************************************************************************)
NOPAt(ahi, alo) == M(ahi, alo, \hE1A0, \h0000)

\* data_processing_test_1
ProgDataProcessing ==
    M(\h0800, \h0000, \hE282, \h1010) @@ M(\h0800, \h0004, \hE1A0, \h2001)
 @@ M(\h0800, \h0008, \hE3A0, \h3011) @@ M(\h0800, \h000C, \hE003, \h3002)
 @@ M(\h0800, \h0010, \hE083, \hF001) @@ M(\h0000, \h0020, \hE3A0, \h0003)
 @@ M(\h0000, \h0024, \hE3A0, \h1001) @@ M(\h0000, \h0028, \hE080, \h2501)
 @@ M(\h0000, \h002C, \hE000, \h3001) @@ M(\h0000, \h0030, \hE040, \h4101)
 @@ M(\h0000, \h0034, \hE020, \h5001) @@ M(\h0000, \h0038, \hE3A0, \h0002)
 @@ M(\h0000, \h003C, \hE1A0, \hFD00)

\* load_store_test
ProgLoadStore ==
    M(\h0000, \h0004, \h0000, \h0017) @@ M(\h0000, \h0008, \h0000, \h0020)
 @@ M(\h0000, \h000C, \h0600, \h0000) @@ M(\h0000, \h0030, \hAABB, \hCCDD)
 @@ M(\h0600, \h0000, \hE590, \h4008) @@ M(\h0600, \h0004, \hE580, \h4000)
 @@ M(\h0600, \h0008, \hE5D0, \hA031) @@ M(\h0600, \h000C, \hEAFF, \hFFFE)
 @@ NOPAt(\h0800, \h0000)             @@ M(\h0800, \h0004, \hE590, \h7004)
 @@ M(\h0800, \h0008, \hE590, \hF00C) @@ M(\h0800, \h000C, \hEAFF, \hFFFE)

\* data_processing_test_2, with a loop bound of 1
ProgCompareBranch ==
    M(\h0800, \h0000, \hE1A0, \h0000) @@ M(\h0800, \h0004, \hE3A0, \h0000)
 @@ M(\h0800, \h0008, \hE3A0, \h1001) @@ M(\h0800, \h000C, \hE150, \h0001)
 @@ M(\h0800, \h0010, \hAA00, \h0001) @@ M(\h0800, \h0014, \hE280, \h0001)
 @@ M(\h0800, \h0018, \hEAFF, \hFFFB) @@ M(\h0800, \h001C, \hEAFF, \hFFFE)

\* branch_test
ProgBranch ==
    M(\h0800, \h0000, \hEA00, \h002E) @@ M(\h0800, \h00C0, \hE281, \h1001)
 @@ M(\h0800, \h00C4, \hE282, \h2002) @@ M(\h0800, \h00C8, \hE283, \h3003)
 @@ M(\h0800, \h00CC, \hE284, \h4004) @@ M(\h0800, \h00D0, \hEAFF, \hFFFA)

\* load_store_hw_test
ProgLoadStoreHw ==
    M(\h0000, \h0020, \hAABB, \hCCDD) @@ M(\h0000, \h0028, \h0000, \h6000)
 @@ M(\h0000, \h0040, \h1111, \h1111) @@ M(\h0000, \h0044, \h2222, \h2222)
 @@ M(\h0000, \h6000, \hE1A0, \h0000) @@ M(\h0000, \h6004, \hE1C1, \h03B0)
 @@ M(\h0000, \h6008, \hE1C1, \h24D0) @@ M(\h0000, \h600C, \hE3A0, \h80CB)
 @@ M(\h0000, \h6010, \hE3A0, \h90CC) @@ M(\h0000, \h6014, \hE1C1, \h85F0)
 @@ M(\h0000, \h6018, \hEAFF, \hFFFE) @@ M(\h0800, \h0000, \hE1A0, \h0000)
 @@ M(\h0800, \h0004, \hE1D0, \hA2B0) @@ M(\h0800, \h0008, \hE1D0, \hB2F2)
 @@ M(\h0800, \h000C, \hE1F0, \hC2D3) @@ M(\h0800, \h0010, \hE1D0, \hF0F5)
 @@ M(\h0800, \h0014, \hEAFF, \hFFFE)

\* swi_test
ProgSwi ==
    M(\h0000, \h0004, \hE1A0, \h0000) @@ M(\h0000, \h0008, \hE3A0, \h3003)
 @@ M(\h0000, \h000C, \hE1A0, \h0000) @@ M(\h0000, \h0010, \hE1B0, \hF00E)
 @@ M(\h0800, \h0000, \hE1A0, \h0000) @@ M(\h0800, \h0004, \hEF00, \h0010)
 @@ M(\h0800, \h0008, \hE3A0, \hE00A)

\* und_test
ProgUnd ==
    M(\h0000, \h0004, \hE1A0, \h0000) @@ M(\h0000, \h0008, \hE3A0, \h3003)
 @@ M(\h0000, \h000C, \hE1A0, \h0000) @@ M(\h0000, \h0010, \hE1B0, \hF00E)
 @@ M(\h0800, \h0000, \hE1A0, \h0000) @@ M(\h0800, \h0004, \hE700, \h0010)
 @@ M(\h0800, \h0008, \hE3A0, \hE00A)

\* psr_mrs_test
ProgMrs ==
    M(\h0000, \h0004, \hE1A0, \h0000) @@ M(\h0000, \h0008, \hE14F, \hB000)
 @@ M(\h0000, \h000C, \hE1A0, \h0000) @@ M(\h0800, \h0000, \hE1A0, \h0000)
 @@ M(\h0800, \h0004, \hE15A, \h000B) @@ M(\h0800, \h0008, \hE10F, \hA000)
 @@ M(\h0800, \h000C, \hE14F, \hB000) @@ M(\h8000, \h0010, \hE700, \h0010)

\* swp_test
ProgSwp ==
    M(\h0000, \h0004, \hAABB, \hCCDD) @@ M(\h0800, \h0000, \hE1A0, \h0000)
 @@ M(\h0800, \h0004, \hE3A0, \hA0FF) @@ M(\h0800, \h0008, \hE3A0, \h0004)
 @@ M(\h0800, \h000C, \hE100, \h109A)

\* mul_test
ProgMul ==
    M(\h0800, \h0000, \hE3A0, \hAF59) @@ M(\h0800, \h0004, \hE3E0, \hB00B)
 @@ M(\h0800, \h0008, \hE00C, \h0B9A) @@ M(\h0800, \h000C, \hE02D, \hBA9C)
 @@ M(\h0800, \h0010, \hE1A0, \h0000) @@ M(\h0800, \h0014, \hE3A0, \h1482)
 @@ M(\h0800, \h0018, \hE3A0, \h2011) @@ M(\h0800, \h001C, \hE084, \h3291)
 @@ M(\h0800, \h0020, \hE0C6, \h5291)

\* stm_ldm_test
ProgStmLdm ==
    M(\h0800, \h0000, \hE1A0, \h0000) @@ M(\h0800, \h0004, \hE3A0, \hA010)
 @@ M(\h0800, \h0008, \hE3A0, \h3003) @@ M(\h0800, \h000C, \hE3A0, \h4004)
 @@ M(\h0800, \h0010, \hE3A0, \h7007) @@ M(\h0800, \h0014, \hE82A, \h0098)
 @@ M(\h0800, \h0018, \hE99A, \h3800)

\* bx_test: the branch and exchange to an address with bit 0 set
ProgBx ==
    M(\h0010, \h0000, \h2222, \h1111) @@ M(\h0010, \h0004, \h4444, \h3333)
 @@ M(\h0800, \h0000, \hE1A0, \h0000) @@ M(\h0800, \h0004, \hE3A0, \hA601)
 @@ M(\h0800, \h0008, \hE28A, \hA001) @@ M(\h0800, \h000C, \hE12F, \hFF1A)

\* mov r10, 0x100000; bx r10, with mov r1, 1 at the destination
ProgBxArm ==
    M(\h0010, \h0000, \hE3A0, \h1001) @@ M(\h0800, \h0000, \hE3A0, \hA601)
 @@ M(\h0800, \h0004, \hE12F, \hFF1A)

\* swpeq r0, r0, [r15] while Z is clear
ProgSwpFailing ==
    M(\h0800, \h0000, \hE1A0, \h0000) @@ M(\h0800, \h0004, \h010F, \h0090)

\* instructions of every class with the condition EQ while Z is clear
ProgFailing ==
    M(\h0800, \h0000, \h03A0, \h1001) @@ M(\h0800, \h0004, \h0A00, \h002E)
 @@ M(\h0800, \h0008, \h012F, \hFF1A) @@ M(\h0800, \h000C, \h0590, \h7004)
 @@ M(\h0800, \h0010, \h01D0, \hA2B0) @@ M(\h0800, \h0014, \h0F00, \h0010)
 @@ M(\h0800, \h0018, \h0700, \h0010) @@ M(\h0800, \h001C, \h010F, \hA000)
 @@ M(\h0800, \h0020, \h0329, \hF012) @@ M(\h0800, \h0024, \h0100, \h109A)
 @@ M(\h0800, \h0028, \h000C, \h0B9A) @@ M(\h0800, \h002C, \h0891, \h8000)
 @@ M(\h0800, \h0030, \h0329, \hF000) @@ M(\h0800, \h0034, \h088F, \h0001)

\* swi; at the vector cmp r0, r0; ldmeq r1, {pc}, which restores a CPSR with Z clear
ProgLdmStuck ==
    M(\h0000, \h0000, \h0000, \h0040) @@ M(\h0000, \h0008, \hE150, \h0000)
 @@ M(\h0000, \h000C, \h0891, \h8000) @@ M(\h0800, \h0000, \hEF00, \h0000)

\* swi; at the vector ldm r1, {r2, pc}
ProgLdmSupervisor ==
    M(\h0000, \h0000, \h0000, \h0033) @@ M(\h0000, \h0004, \h0000, \h0040)
 @@ M(\h0000, \h0008, \hE891, \h8004) @@ M(\h0000, \h0040, \hE3A0, \h3003)
 @@ M(\h0800, \h0000, \hEF00, \h0000)

\* ldm r1, {pc} in the mode of the reset
ProgLdmPc ==
    M(\h0000, \h0000, \h0000, \h0040) @@ M(\h0800, \h0000, \hE891, \h8000)

\* msr cpsr_fc, 0x12; msr spsr_fc, 0x1f; mrs r1, spsr; ldm r2, {pc}; at 0x40 msr cpsr_fc, 0x13 in the user mode
ProgMsr ==
    M(\h0000, \h0000, \h0000, \h0040) @@ M(\h0000, \h0040, \hE329, \hF013)
 @@ M(\h0000, \h0044, \hE10F, \h3000) @@ M(\h0800, \h0000, \hE329, \hF012)
 @@ M(\h0800, \h0004, \hE369, \hF01F) @@ M(\h0800, \h0008, \hE14F, \h1000)
 @@ M(\h0800, \h000C, \hE892, \h8000)

\* msr cpsr_fc, 0
ProgMsrInvalid ==
    M(\h0800, \h0000, \hE329, \hF000)

\* msr cpsr_fc, 0x12; ldm r1, {pc} and movs pc, lr while the SPSR of the mode is 0
ProgReturnInvalid ==
    M(\h0000, \h0000, \h0000, \h0040) @@ M(\h0000, \h0040, \hE1B0, \hF00E)
 @@ M(\h0800, \h0000, \hE329, \hF012) @@ M(\h0800, \h0004, \hE891, \h8000)

\* mov r1, 1; mov r2, 0x40; mul pc, r1, r2
ProgMulPc ==
    M(\h0800, \h0000, \hE3A0, \h1001) @@ M(\h0800, \h0004, \hE3A0, \h2040)
 @@ M(\h0800, \h0008, \hE00F, \h0291)

\* ldr r0, [pc], 4
ProgLoadPcWriteBack ==
    M(\h0800, \h0000, \hE1A0, \h0000) @@ M(\h0800, \h0004, \hE49F, \h0004)

\* mul r3, r1, r2 while r2 is 0
ProgMulZero ==
    M(\h0800, \h0000, \hE1A0, \h0000) @@ M(\h0800, \h0004, \hE003, \h0291)

\* tst r0, r0 without the S bit; cmp r0, r1 with 15 in the Rd field
ProgCompareRd15 ==
    M(\h0800, \h0000, \hE100, \h0000) @@ M(\h0800, \h0004, \hE150, \hF001)

\* A software interrupt whose handler begins with a software interrupt
ProgSwiNested ==
    M(\h0800, \h0000, \hE1A0, \h0000) @@ M(\h0800, \h0004, \hEF00, \h0010)
 @@ M(\h0000, \h0008, \hEF00, \h0011)

\* Programs of one or two instructions after the NOP of the entry point
TransferPrograms ==
    << \* strd r1, [r0]
       NOPAt(\h0800, \h0000) @@ M(\h0800, \h0004, \hE1C0, \h10F0),
       \* mov r0, r1, lsl r15; ldr r0, [r1, r15]
       M(\h0800, \h0000, \hE1A0, \h0F11) @@ M(\h0800, \h0004, \hE791, \h000F),
       \* ldr r0, [r1, r15]; ldrd r14, [r0]
       M(\h0800, \h0000, \hE791, \h000F) @@ M(\h0800, \h0004, \hE1C0, \hE0D0),
       \* ldrd r14, [r0]; ldm r15, {r0}
       M(\h0800, \h0000, \hE1C0, \hE0D0) @@ M(\h0800, \h0004, \hE89F, \h0001),
       \* ldm r15, {r0}
       M(\h0800, \h0000, \hE89F, \h0001),
       \* mov r1, 0x40; add pc, r1, r1, lsl 1
       M(\h0800, \h0000, \hE3A0, \h1040) @@ M(\h0800, \h0004, \hE081, \hF081),
       \* mov pc, 0x40; at 0x40 mov r2, r1, lsl r0 and teq pc, 0
       M(\h0800, \h0000, \hE3A0, \hF040) @@ M(\h0000, \h0040, \hE1A0, \h2011)
            @@ M(\h0000, \h0044, \hE33F, \h0000),
       \* mvn pc, 0x80000007; at 0x7FFFFFF8 b 0x80000000
       M(\h0800, \h0000, \hE3E0, \hF11E) @@ M(\h7FFF, \hFFF8, \hEA00, \h0000),
       \* bl 0x08000010; at 0x08000010 bl 0x08000004
       M(\h0800, \h0000, \hEB00, \h0002) @@ M(\h0800, \h0010, \hEBFF, \hFFFB),
       \* movs r0, 0x80000000; adds r1, r0, r0; movs r2, r0, lsr 31; mov r3, 0;
       \* cmp r2, r0; tst r0, r0, lsl 1; ands r4, r2, r2, lsl r3; rsbs r5, r2, 0
       M(\h0800, \h0000, \hE3B0, \h0102) @@ M(\h0800, \h0004, \hE090, \h1000)
            @@ M(\h0800, \h0008, \hE1B0, \h2FA0) @@ M(\h0800, \h000C, \hE3A0, \h3000)
            @@ M(\h0800, \h0010, \hE152, \h0000) @@ M(\h0800, \h0014, \hE110, \h0080)
            @@ M(\h0800, \h0018, \hE012, \h4312) @@ M(\h0800, \h001C, \hE272, \h5000),
       \* mov r0, 0x08000000; ldrb r1, [r0, 0x41]!; ldr r2, [r0], -1;
       \* ldr r3, [r0, r1, lsr 5]; ldrb r4, [r0, 3]; the word 0x81828384 at 0x08000040
       M(\h0800, \h0000, \hE3A0, \h0302) @@ M(\h0800, \h0004, \hE5F0, \h1041)
            @@ M(\h0800, \h0008, \hE410, \h2001) @@ M(\h0800, \h000C, \hE790, \h32A1)
            @@ M(\h0800, \h0010, \hE5D0, \h4003) @@ M(\h0800, \h0040, \h8182, \h8384),
       \* mvn r1, 0x7B; mov r0, 0x40; strb r1, [r0, 1]; strh r1, [r0], 2;
       \* str pc, [r0, -2]!; str r1, [r0, r0]
       M(\h0800, \h0000, \hE3E0, \h107B) @@ M(\h0800, \h0004, \hE3A0, \h0040)
            @@ M(\h0800, \h0008, \hE5C0, \h1001) @@ M(\h0800, \h000C, \hE0C0, \h10B2)
            @@ M(\h0800, \h0010, \hE520, \hF002) @@ M(\h0800, \h0014, \hE780, \h1000),
       \* mov r0, 0x08000000; ldrsb r1, [r0, 0x41]; ldrsh r2, [r0, 0x42];
       \* ldrsh r3, [r0, 0x43]; ldrh r4, [r0, 0x41]; ldrh r5, [r0, 0x40]!;
       \* the word 0x81828384 at 0x08000040
       M(\h0800, \h0000, \hE3A0, \h0302) @@ M(\h0800, \h0004, \hE1D0, \h14D1)
            @@ M(\h0800, \h0008, \hE1D0, \h24F2) @@ M(\h0800, \h000C, \hE1D0, \h34F3)
            @@ M(\h0800, \h0010, \hE1D0, \h44B1) @@ M(\h0800, \h0014, \hE1F0, \h54B0)
            @@ M(\h0800, \h0040, \h8182, \h8384),
       \* mov r0, 4; ldrd r2, [r0, 4]; strd r2, [r0, 1]; ldrd r4, [r0];
       \* the words 0x81828384 and 0x11223344 at 8 and 12
       M(\h0800, \h0000, \hE3A0, \h0004) @@ M(\h0800, \h0004, \hE1C0, \h20D4)
            @@ M(\h0800, \h0008, \hE1C0, \h20F1) @@ M(\h0800, \h000C, \hE1C0, \h40D0)
            @@ M(\h0000, \h0008, \h8182, \h8384) @@ M(\h0000, \h000C, \h1122, \h3344),
       \* mov r0, 0x40; mov r2, 2; stmdb r0, {r1, r2}; ldmia r0, {r3, r5, r6};
       \* ldmda r0, {r4}; ldmia r0, {r1}^; the words 5 and 6 at 0x44 and 0x48
       M(\h0800, \h0000, \hE3A0, \h0040) @@ M(\h0800, \h0004, \hE3A0, \h2002)
            @@ M(\h0800, \h0008, \hE900, \h0006) @@ M(\h0800, \h000C, \hE890, \h0068)
            @@ M(\h0800, \h0010, \hE810, \h0010) @@ M(\h0800, \h0014, \hE8D0, \h0002)
            @@ M(\h0000, \h0044, \h0000, \h0005) @@ M(\h0000, \h0048, \h0000, \h0006),
       \* mov r0, 0x40; ldmib r0!, {r1, r2}; ldmdb r0!, {r0, r3}; stmia r0!, {};
       \* stmdb r0!, {}; the word 0x80 at 0x40
       M(\h0800, \h0000, \hE3A0, \h0040) @@ M(\h0800, \h0004, \hE9B0, \h0006)
            @@ M(\h0800, \h0008, \hE930, \h0009) @@ M(\h0800, \h000C, \hE8A0, \h0000)
            @@ M(\h0800, \h0010, \hE920, \h0000) @@ M(\h0000, \h0040, \h0000, \h0080),
       \* swi; at the vector ldmia r0!, {}; the word 0x100 at 0
       M(\h0800, \h0000, \hEF00, \h0000) @@ M(\h0000, \h0008, \hE8B0, \h0000)
            @@ M(\h0000, \h0000, \h0000, \h0100),
       \* mvn r0, 0xE0; msr cpsr_c, 0xD2; msr spsr_fc, r0; mrs r1, spsr;
       \* msr cpsr_f, r0; msr cpsr_fc, r0; msr cpsr_fc, 0x13; msr spsr_f, r0
       M(\h0800, \h0000, \hE3E0, \h00E0) @@ M(\h0800, \h0004, \hE321, \hF0D2)
            @@ M(\h0800, \h0008, \hE169, \hF000) @@ M(\h0800, \h000C, \hE14F, \h1000)
            @@ M(\h0800, \h0010, \hE128, \hF000) @@ M(\h0800, \h0014, \hE129, \hF000)
            @@ M(\h0800, \h0018, \hE329, \hF013) @@ M(\h0800, \h001C, \hE168, \hF000),
       \* mvn r0, 0xE0; msr cpsr_c, 0xD2; msr spsr_f, r0
       M(\h0800, \h0000, \hE3E0, \h00E0) @@ M(\h0800, \h0004, \hE321, \hF0D2)
            @@ M(\h0800, \h0008, \hE168, \hF000),
       \* movs r0, 0x80000000; adds r0, r0, r0; mvn r1, 0; mov r3, 1;
       \* umlals r2, r3, r1, r1; smlals r4, r5, r1, r1; umlal r2, r3, r1, r1
       M(\h0800, \h0000, \hE3B0, \h0102) @@ M(\h0800, \h0004, \hE090, \h0000)
            @@ M(\h0800, \h0008, \hE3E0, \h1000) @@ M(\h0800, \h000C, \hE3A0, \h3001)
            @@ M(\h0800, \h0010, \hE0B3, \h2191) @@ M(\h0800, \h0014, \hE0F5, \h4191)
            @@ M(\h0800, \h0018, \hE0A3, \h2191),
       \* mov r10, 0x100000; add r10, r10, 3; bx r10
       M(\h0010, \h0000, \h2222, \h1111) @@ M(\h0800, \h0000, \hE3A0, \hA601)
            @@ M(\h0800, \h0004, \hE28A, \hA003) @@ M(\h0800, \h0008, \hE12F, \hFF1A)
    >>

Programs ==
    <<ProgDataProcessing, ProgLoadStore, ProgCompareBranch, ProgBranch,
      ProgLoadStoreHw, ProgSwi, ProgUnd, ProgMrs,
      ProgSwp, ProgMul, ProgStmLdm, ProgBx,
      ProgBxArm, ProgSwpFailing, ProgFailing, ProgLdmStuck,
      ProgLdmSupervisor, ProgLdmPc, ProgMsr, ProgMsrInvalid,
      ProgReturnInvalid, ProgMulPc, ProgLoadPcWriteBack, ProgMulZero,
      ProgCompareRd15, ProgSwiNested>> \o TransferPrograms

(***************************************************************************)
(* The register file called directly                                       *)
(***************************************************************************)
Modes == {SYSTEM, USER, FIQ, IRQ, SUPERVISOR, ABORT, UND}

\* The copy of the register index that the mode resolves to: r0-r7 and r15
\* have one, r8-r12 one for FIQ and one for the other modes, r13-r14 one for
\* each of FIQ, SUPERVISOR, ABORT, IRQ, UND and one for USER and SYSTEM.
Copy(mode, index) ==
    IF index \in 0..7 \/ index = 15 THEN <<"all", index>>
    ELSE IF index \in 8..12 THEN
        (IF mode = FIQ THEN <<"fiq", index>> ELSE <<"common", index>>)
    ELSE IF mode \in {USER, SYSTEM} THEN <<"common", index>>
    ELSE IF mode = FIQ THEN <<"fiq", index>>
    ELSE IF mode = SUPERVISOR THEN <<"svc", index>>
    ELSE IF mode = ABORT THEN <<"abt", index>>
    ELSE IF mode = IRQ THEN <<"irq", index>>
    ELSE <<"und", index>>

Copies == {Copy(mode, index) : mode \in Modes, index \in 0..15}

NoCall ==
    [op |-> "none", value |-> {}, index |-> 0, ok |-> TRUE,
     before |-> RegisterFile_new, result |-> FALSE]

RegisterFileUntouched ==
    /\ register_file = RegisterFile_new
    /\ call = NoCall
    /\ shadow = [c \in Copies |-> IF c = <<"all", 15>> THEN W(\h07ff, \hfff8) ELSE {}]
    /\ calls = 0

CpuUntouched ==
    /\ cpu = ARM7TDMI_new
    /\ response = response_new
    /\ request = next_request(ARM7TDMI_new)
    /\ memory = ProgDataProcessing
    /\ panicked = FALSE
    /\ steps = 0
    /\ inflight = 0
    /\ last_op = [n_wait |-> "NONE", step_before |-> STEP0, passed |-> FALSE,
                  type |-> "DataProcessing"]
    /\ snapshot = [entry |-> ARM7TDMI_new, trap |-> ARM7TDMI_new]

MaxCalls == 2

\* The values written to the status registers: every mode, a mode with the
\* flags set, and values whose bits 4..0 are no mode
StatusValues ==
    {U(mode) : mode \in Modes} \cup {W(\hF000, FIQ), U(0), W(\hFFFF, \hFFFF) \ {2}}

\* The registers written: the first and the last register of each group that
\* the banks tell apart (r0-r7, r8-r12, r13-r14, r15)
WrittenRegisters == {0, 7, 8, 12, 13, 14, 15}

\* The value the n-th call writes to a register
RegisterValue(n) == W(\h00A0 + n, \h0100 + n)

\* The register file is new, then put in any of the modes
InitRF ==
    /\ CpuUntouched
    /\ \E mode \in Modes : register_file = write_cpsr(RegisterFile_new, U(mode)).rf
    /\ call = NoCall
    /\ shadow = [c \in Copies |-> IF c = <<"all", 15>> THEN W(\h07ff, \hfff8) ELSE {}]
    /\ calls = 0

CallWriteCpsr(value) ==
    /\ calls < MaxCalls
    /\ LET r == write_cpsr(register_file, value)
       IN /\ register_file' = r.rf
          /\ call' = [NoCall EXCEPT !.op = "write_cpsr", !.value = value,
                                    !.ok = r.ok, !.before = register_file]
    /\ calls' = calls + 1
    /\ UNCHANGED shadow
    /\ UNCHANGED cpu_vars

CallWriteSpsr(value) ==
    /\ calls < MaxCalls
    /\ LET r == write_spsr(register_file, value)
       IN /\ register_file' = r.rf
          /\ call' = [NoCall EXCEPT !.op = "write_spsr", !.value = value,
                                    !.ok = r.ok, !.before = register_file]
    /\ calls' = calls + 1
    /\ UNCHANGED shadow
    /\ UNCHANGED cpu_vars

CallWriteRegister(index) ==
    /\ calls < MaxCalls
    /\ register_file' = write_register(register_file, index, RegisterValue(calls))
    /\ call' = [NoCall EXCEPT !.op = "write_register", !.index = index,
                              !.value = RegisterValue(calls), !.before = register_file]
    /\ shadow' = [shadow EXCEPT ![Copy(get_mode(register_file), index)] = RegisterValue(calls)]
    /\ calls' = calls + 1
    /\ UNCHANGED cpu_vars

NextRF ==
    \/ \E value \in StatusValues : CallWriteCpsr(value)
    \/ \E value \in StatusValues : CallWriteSpsr(value)
    \/ \E index \in WrittenRegisters : CallWriteRegister(index)

SpecRF == InitRF /\ [][NextRF]_vars

(***************************************************************************)
(* The condition codes on every combination of the flags                  *)
(***************************************************************************)
InitCond ==
    /\ CpuUntouched
    /\ \E n, z, c, v \in BOOLEAN :
            register_file = write_v(write_c(write_z(write_n(RegisterFile_new, n), z), c), v)
    /\ call = NoCall
    /\ shadow = [c \in Copies |-> {}]
    /\ calls = 0

CallCheckConditionCode(code) ==
    /\ call' = [NoCall EXCEPT !.op = "check_condition_code", !.index = code,
                              !.result = check_condition_code(register_file, code)]
    /\ UNCHANGED <<register_file, shadow, calls>>
    /\ UNCHANGED cpu_vars

NextCond == \E code \in 0..15 : CallCheckConditionCode(code)

SpecCond == InitCond /\ [][NextCond]_vars

(***************************************************************************)
(* The run of the harness                                                  *)
(***************************************************************************)
MaxSteps == 36
MaxInstructionSteps == 20

Init ==
    /\ cpu = ARM7TDMI_new
    /\ response = response_new
    /\ request = next_request(ARM7TDMI_new)
    /\ memory \in {Programs[i] : i \in DOMAIN Programs}
    /\ panicked = FALSE
    /\ steps = 0
    /\ inflight = 0
    /\ last_op = [n_wait |-> "NONE", step_before |-> STEP0, passed |-> FALSE,
                  type |-> "DataProcessing"]
    /\ snapshot = [entry |-> ARM7TDMI_new, trap |-> ARM7TDMI_new]
    /\ RegisterFileUntouched

\* What a call of step in the current state is about
op_of(n_wait) ==
    [n_wait |-> n_wait,
     step_before |-> cpu.instruction_step,
     passed |-> check_condition_code(cpu.rf, Field(cpu, 31, 28)),
     type |-> decode_arm(cpu.arm_current_execute)]

\* The CPU as it is when the first call of an instruction is made, and as it
\* is when the first call of a software interrupt or of an undefined
\* instruction whose condition passes is made
snapshot_of(op) ==
    IF op.step_before # STEP0 THEN snapshot
    ELSE [entry |-> cpu,
          trap |-> IF op.passed /\ op.type \in {"SoftwareInterrupt", "Undefined"}
                   THEN cpu ELSE snapshot.trap]

\* let req = cpu.step(response), the bus being ready, and the request served
StepReady ==
    /\ ~panicked
    /\ steps < MaxSteps
    /\ \E overflow_checks \in BOOLEAN :
       \E m \in {step(cpu, [response EXCEPT !.n_wait = "HIGH"], overflow_checks)} :
       \E sv \in {serve(memory, response, m.req)} :
            /\ cpu' = m.cpu
            /\ request' = m.req
            /\ panicked' = m.panic
            /\ response' = IF m.panic THEN response ELSE sv.response
            /\ memory' = IF m.panic THEN memory ELSE sv.memory
            /\ inflight' = IF m.cpu.instruction_step = STEP0 /\ ~m.panic THEN 0
                           ELSE IF inflight > MaxInstructionSteps THEN inflight
                           ELSE inflight + 1
    /\ steps' = steps + 1
    /\ last_op' = op_of("HIGH")
    /\ snapshot' = snapshot_of(op_of("HIGH"))
    /\ UNCHANGED rf_vars

\* The same call while the memory asserts wait: the transfer that is pending
\* stays pending, the request returned meanwhile is not served.
StepStalled ==
    /\ ~panicked
    /\ \E overflow_checks \in BOOLEAN :
       \E m \in {step(cpu, [response EXCEPT !.n_wait = "LOW"], overflow_checks)} :
            /\ cpu' = m.cpu
            /\ request' = m.req
            /\ panicked' = m.panic
    /\ last_op' = op_of("LOW")
    /\ UNCHANGED <<response, memory, steps, inflight, snapshot>>
    /\ UNCHANGED rf_vars

Next == StepReady \/ StepStalled

Spec == Init /\ [][Next]_vars

(***************************************************************************)
(* Properties of the step driver                                           *)
(***************************************************************************)

\* C1: a step call made with a stalled response (n_wait LOW) changes nothing
\* of the CPU: registers, CPSR, SPSRs, queue, current instruction, FSM step,
\* counters and flags are after the call what they were before it; as every
\* stalled call does so, any number of consecutive stalled calls does.
C1_StalledStepChangesNothing ==
    [][last_op'.n_wait = "LOW" => (cpu' = cpu /\ ~panicked')]_vars

\* A stalled call made in the middle of a multi-cycle instruction, with
\* fetched words waiting in the queue
C1_Witness ==
    /\ last_op.n_wait = "LOW"
    /\ cpu.instruction_step # STEP0
    /\ cpu.arm_instruction_queue # << >>

\* C2: the request returned by a stalled step call is field for field the
\* request that the previous step call returned.
C2_StalledRequestRepeatsPrevious ==
    [][(last_op'.n_wait = "LOW" /\ last_op.n_wait # "NONE")
           => request' = request]_vars

\* C3: once the condition of an instruction passed at step 0, a finite number
\* of ready step calls brings the FSM back to step 0: no instruction is in
\* flight for more calls than the longest sequence of a handler, and none is
\* abandoned in the middle of its sequence.
C3_InstructionRetires ==
    /\ inflight <= MaxInstructionSteps
    /\ ~(panicked /\ cpu.instruction_step # STEP0)

C5_R15IsFetchAddress ==
    (/\ ~panicked
     /\ cpu.instruction_step = STEP0
     /\ is_bit_clear(cpu.rf.cpsr, 5)
     /\ cpu.current_address # NoAddress)
        => get_register(cpu.rf, 15, 0) = cpu.current_address

\* C6: the bits 4..0 of the CPSR always hold the encoding of one of the seven
\* operating modes.
C6_ModeAlwaysValid == is_mode_correct(get_cpsr(cpu.rf))

\* The user mode, entered by the restore of the CPSR from the SPSR of the IRQ
\* mode, itself entered by a write of the CPSR
C6_Witness == get_mode(cpu.rf) = USER /\ ~panicked

\* C9: a handler called at step 0 with a condition that fails changes
\* nothing and leaves the request the default opcode fetch, and the
\* instruction retires in the same step call.
C9_FailedConditionIsNoOp ==
    (/\ ~panicked
     /\ cpu.instruction_step = STEP0
     /\ ~check_condition_code(cpu.rf, Field(cpu, 31, 28)))
        => \A oc \in BOOLEAN :
             step(cpu, response, oc)
                 = retire(Ret(fetch(cpu, response), next_request(cpu)))

(***************************************************************************)
(* Properties of the register file                                         *)
(***************************************************************************)
ValidMode(value) == Bits(value, 4, 0) \in Modes

\* C7: write_cpsr and write_spsr called with a value whose bits 4..0 are no
\* mode return an error and leave the whole register file as it was;
\* write_cpsr called with a value of a valid mode succeeds and get_cpsr then
\* returns that value.
C7_StatusWritesValidated ==
    /\ (call.op \in {"write_cpsr", "write_spsr"} /\ ~ValidMode(call.value))
          => (~call.ok /\ register_file = call.before)
    /\ (call.op = "write_cpsr" /\ ValidMode(call.value))
          => (call.ok /\ get_cpsr(register_file) = call.value)

\* write_spsr refused a value of no mode in a mode that has an SPSR
C7_Witness ==
    /\ call.op = "write_spsr"
    /\ ~ValidMode(call.value)
    /\ ~call.ok
    /\ get_mode(register_file) = FIQ

\* The documented truth value of a condition code
Documented(code, n, z, c, v) ==
    CASE code = 0 -> z
      [] code = 1 -> ~z
      [] code = 2 -> c
      [] code = 3 -> ~c
      [] code = 4 -> n
      [] code = 5 -> ~n
      [] code = 6 -> v
      [] code = 7 -> ~v
      [] code = 8 -> c /\ ~z
      [] code = 9 -> ~c \/ z
      [] code = 10 -> n = v
      [] code = 11 -> n # v
      [] code = 12 -> ~z /\ (n = v)
      [] code = 13 -> z \/ (n # v)
      [] code = 14 -> TRUE
      [] code = 15 -> TRUE

\* C8: for each of the 16 condition codes and each combination of N, Z, C
\* and V, check_condition_code returns the documented truth value.
C8_ConditionTable ==
    call.op = "check_condition_code"
        => call.result = Documented(call.index,
                                    31 \in register_file.cpsr, 30 \in register_file.cpsr,
                                    29 \in register_file.cpsr, 28 \in register_file.cpsr)

\* C10: whatever the mode switches and the register writes were, the value
\* read for a register in each of the seven modes is the value last written
\* to the copy that the mode resolves to: a write changes the value read in
\* exactly the modes that share the copy written.
C10_RegisterBanking ==
    \A mode \in Modes, index \in 0..15 :
        get_register(write_cpsr(register_file, U(mode)).rf, index, 0)
            = shadow[Copy(mode, index)]

\* r13 was written in the supervisor mode and the user mode, entered
\* afterwards, does not read the value written
C10_Witness ==
    /\ call.op = "write_cpsr"
    /\ get_mode(register_file) = USER
    /\ shadow[Copy(SUPERVISOR, 13)] # {}
    /\ get_register(register_file, 13, 0) = {}

(***************************************************************************)
(* The ALU called directly                                                 *)
(***************************************************************************)
\* The operands given to the ALU: the ends of the unsigned and of the signed
\* range, their neighbours, the ends of the low half-word and a value without
\* any regularity
AluOperands ==
    {W(\h0000, \h0000), W(\h0000, \h0001), W(\h7FFF, \hFFFF), W(\h8000, \h0000),
     W(\hFFFF, \hFFFF), W(\h0000, \hFFFF), W(\h0001, \h0000), W(\h8000, \h0001),
     W(\hFFFF, \hFFFE), W(\h1234, \h5678)}

NoAluCall == [op |-> "none", opcode |-> 0, result |-> {}, c |-> FALSE, v |-> FALSE]

\* A new CPU whose carry flag is either value, and a pair of operands
InitAlu ==
    /\ CpuUntouched
    /\ \E c \in BOOLEAN : register_file = write_c(RegisterFile_new, c)
    /\ \E operand1 \in AluOperands, operand2 \in AluOperands :
            call = [NoAluCall EXCEPT !.op = "operands"]
                       @@ [operand1 |-> operand1, operand2 |-> operand2]
    /\ shadow = [c \in Copies |-> {}]
    /\ calls = 0

\* self.alu_operation(operand1, operand2, opcode)
CallAluOperation(opcode) ==
    /\ \E out \in {alu_operation(register_file, call.operand1, call.operand2, opcode)} :
            call' = [call EXCEPT !.op = "alu_operation", !.opcode = opcode,
                                 !.result = out.result, !.c = out.c, !.v = out.v]
    /\ UNCHANGED <<register_file, shadow, calls>>
    /\ UNCHANGED cpu_vars

\* The alu of mod.rs, the derivation on the 64-bit sign extensions: the
\* carry is bit 32 of the 64-bit result, the overflow a comparison of signs
alu_sign_extended(rf, operand1, operand2, opcode) ==
    LET first == IF opcode \in {2, 10} THEN operand1 ELSE operand2
        second == IF opcode \in {2, 10} THEN operand2 ELSE operand1
        op1 == sext64(first)
        op2 == sext64(second)
        c_in == c_in64(rf)
        alu_result ==
            CASE opcode \in {2, 3, 10} -> sub64(op1, op2)
              [] opcode \in {4, 11} -> add64(op1, op2)
              [] opcode = 5 -> add64(add64(op1, op2), c_in)
              [] opcode = 6 -> sub64(add64(sub64(op1, op2), c_in), one64)
              [] opcode = 7 -> sub64(add64(sub64(op2, op1), c_in), one64)
        v_output ==
            IF opcode \in {4, 5, 11}
            THEN \/ 63 \notin op1 /\ 63 \notin op2 /\ 63 \in alu_result
                 \/ 63 \in op1 /\ 63 \in op2 /\ 63 \notin alu_result
            ELSE \/ 63 \notin op1 /\ 63 \in op2 /\ 63 \in alu_result
                 \/ 63 \in op1 /\ 63 \notin op2 /\ 63 \notin alu_result
    IN
    IF opcode \notin {2, 3, 4, 5, 6, 7, 10, 11}
    THEN [panic |-> TRUE, result |-> {}, c |-> FALSE, v |-> FALSE]
    ELSE [panic |-> FALSE, result |-> low32(alu_result),
          c |-> is_bit_set(alu_result, 32), v |-> v_output]

\* A call of the alu of mod.rs with the operands of the state
CallAluSignExtended(opcode) ==
    /\ \E out \in {alu_sign_extended(register_file, call.operand1, call.operand2, opcode)} :
            /\ ~out.panic
            /\ call' = [call EXCEPT !.op = "alu_sign_extended", !.opcode = opcode,
                                    !.result = out.result, !.c = out.c, !.v = out.v]
    /\ UNCHANGED <<register_file, shadow, calls>>
    /\ UNCHANGED cpu_vars

NextAlu ==
    \E opcode \in 0..15 : CallAluOperation(opcode) \/ CallAluSignExtended(opcode)

SpecAlu == InitAlu /\ [][NextAlu]_vars

(***************************************************************************)
(* Properties of the ALU                                                   *)
(*                                                                         *)
(* The exact values are computed on the two half-words of the operands:    *)
(* a = Hi(a) * 2^16 + Lo(a), and as a signed number SHi(a) * 2^16 + Lo(a). *)
(***************************************************************************)
Lo(w) == Bits(w, 15, 0)
Hi(w) == Bits(w, 31, 16)
SHi(w) == Hi(w) - (IF 31 \in w THEN 65536 ELSE 0)

\* a + b + c as the number hi * 2^16 + lo with lo in 0..65535
ExactSum(hia, hib, a, b, c) ==
    [hi |-> hia + hib + ((Lo(a) + Lo(b) + c) \div 65536),
     lo |-> (Lo(a) + Lo(b) + c) % 65536]

\* a - b - 1 + c as the number hi * 2^16 + lo with lo in 0..65535
ExactDiff(hia, hib, a, b, c) ==
    [hi |-> hia - hib + ((Lo(a) - Lo(b) - 1 + c) \div 65536),
     lo |-> (Lo(a) - Lo(b) - 1 + c) % 65536]

\* The exact number modulo 2^32
Mod32(x) == W(x.hi % 65536, x.lo)

\* b + 1 - c <= a for the unsigned values of a and b
LeqWithBorrow(b, c, a) == Hi(b) < Hi(a) \/ (Hi(b) = Hi(a) /\ Lo(b) + 1 - c <= Lo(a))

\* The exact signed number lies outside [-2^31, 2^31 - 1]
SignedOutOfRange(x) == x.hi < -32768 \/ x.hi > 32767

\* What the ALU is to return for the opcode: the result, the carry and the
\* signed overflow of the exact operation
AluExact(opcode, a, b, c) ==
    CASE opcode \in {4, 11} ->
            [result |-> Mod32(ExactSum(Hi(a), Hi(b), a, b, 0)),
             c |-> ExactSum(Hi(a), Hi(b), a, b, 0).hi > 65535,
             v |-> SignedOutOfRange(ExactSum(SHi(a), SHi(b), a, b, 0))]
      [] opcode = 5 ->
            [result |-> Mod32(ExactSum(Hi(a), Hi(b), a, b, c)),
             c |-> ExactSum(Hi(a), Hi(b), a, b, c).hi > 65535,
             v |-> SignedOutOfRange(ExactSum(SHi(a), SHi(b), a, b, c))]
      [] opcode \in {2, 10} ->
            [result |-> Mod32(ExactDiff(Hi(a), Hi(b), a, b, 1)),
             c |-> LeqWithBorrow(b, 1, a),
             v |-> SignedOutOfRange(ExactDiff(SHi(a), SHi(b), a, b, 1))]
      [] opcode = 6 ->
            [result |-> Mod32(ExactDiff(Hi(a), Hi(b), a, b, c)),
             c |-> LeqWithBorrow(b, c, a),
             v |-> SignedOutOfRange(ExactDiff(SHi(a), SHi(b), a, b, c))]
      [] opcode = 3 ->
            [result |-> Mod32(ExactDiff(Hi(b), Hi(a), b, a, 1)),
             c |-> LeqWithBorrow(a, 1, b),
             v |-> SignedOutOfRange(ExactDiff(SHi(b), SHi(a), b, a, 1))]
      [] opcode = 7 ->
            [result |-> Mod32(ExactDiff(Hi(b), Hi(a), b, a, c)),
             c |-> LeqWithBorrow(a, c, b),
             v |-> SignedOutOfRange(ExactDiff(SHi(b), SHi(a), b, a, c))]

CarryIn == IF is_flag_set(register_file, "C") THEN 1 ELSE 0

\* C11: for the operands a, b and the carry-in c the ALU returns the exact
\* result modulo 2^32; the carry of ADD/CMN is a + b > 0xFFFFFFFF, of ADC
\* a + b + c > 0xFFFFFFFF, of SUB/CMP b <= a, of SBC b + 1 - c <= a, of
\* RSB/RSC the same with the operands exchanged; the overflow of ADD, SUB,
\* ADC and SBC is set exactly when the exact signed result is outside
\* [-2^31, 2^31 - 1].
C11_AluExact ==
    (call.op = "alu_operation" /\ call.opcode \in {2, 3, 4, 5, 6, 7, 10, 11})
        => \E exact \in {AluExact(call.opcode, call.operand1, call.operand2, CarryIn)} :
              /\ call.result = exact.result
              /\ call.c = exact.c
              /\ call.opcode \in {2, 4, 5, 6} => call.v = exact.v

\* SBC without carry-in of 0x7FFFFFFF - 0x80000000 - 1: the borrow and the
\* signed overflow both happen
C11_Witness ==
    /\ call.op = "alu_operation"
    /\ call.opcode = 6
    /\ CarryIn = 0
    /\ call.operand1 = W(\h7FFF, \hFFFF)
    /\ call.operand2 = W(\h8000, \h0000)
    /\ call.v
    /\ ~call.c
    /\ call.result = W(\hFFFF, \hFFFE)

(***************************************************************************)
(* The barrel shifter called directly                                      *)
(***************************************************************************)
MaxShiftAmount == 33

\* The amounts given to the shifter: every amount up to the first one above
\* 32, and amounts a register can hold about the multiples of 32 above it
ShiftAmounts == 0..MaxShiftAmount \cup {63, 64, 65, 255}

ShiftOperands ==
    {W(\h0000, \h0000), W(\h0000, \h0001), W(\h8000, \h0000), W(\h8000, \h0001),
     W(\hFFFF, \hFFFF), W(\h1234, \h5678), W(\h7FFF, \hFFFE)}

NoShifterCall ==
    [op |-> "none", shift_type |-> 0, shift_amount |-> 0, is_register |-> FALSE,
     result |-> {}, carry |-> FALSE, there_is_shift |-> FALSE]

\* An operand and the value of the carry flag
InitShifter ==
    /\ CpuUntouched
    /\ register_file = RegisterFile_new
    /\ \E operand \in ShiftOperands, old_c \in BOOLEAN :
            call = [NoShifterCall EXCEPT !.op = "operand"]
                       @@ [operand |-> operand, old_c |-> old_c]
    /\ shadow = [c \in Copies |-> {}]
    /\ calls = 0

\* barrel_shifter(operand, shift_type, shift_amount, old_c, is_register)
CallBarrelShifter(shift_type, shift_amount, is_register) ==
    /\ \E out \in {barrel_shifter(call.operand, shift_type, shift_amount,
                                  call.old_c, is_register)} :
            call' = [call EXCEPT !.op = "barrel_shifter",
                                 !.shift_type = shift_type,
                                 !.shift_amount = shift_amount,
                                 !.is_register = is_register,
                                 !.result = out.result,
                                 !.carry = out.carry,
                                 !.there_is_shift = out.there_is_shift]
    /\ UNCHANGED <<register_file, shadow, calls>>
    /\ UNCHANGED cpu_vars

NextShifter ==
    \E shift_type \in 0..3, shift_amount \in ShiftAmounts, is_register \in BOOLEAN :
        CallBarrelShifter(shift_type, shift_amount, is_register)

SpecShifter == InitShifter /\ [][NextShifter]_vars

(***************************************************************************)
(* Properties of the barrel shifter                                        *)
(***************************************************************************)
\* The calls that are documented not to shift: any type by a register
\* holding 0, and LSL #0
NoShiftCase(shift_type, shift_amount, is_register) ==
    shift_amount = 0 /\ (is_register \/ shift_type = 0)

\* C12: barrel_shifter(v, t, 0, c, is_register = true) returns (v, c, false)
\* for every shift type t, every v and both values of c, and so does
\* barrel_shifter(v, LSL, 0, c, is_register = false).
C12_NoShiftIsIdentity ==
    (/\ call.op = "barrel_shifter"
     /\ NoShiftCase(call.shift_type, call.shift_amount, call.is_register))
        => (/\ call.result = call.operand
            /\ call.carry = call.old_c
            /\ ~call.there_is_shift)

\* LSR by a register that holds 0, of an operand with bit 31 set and with the
\* carry flag clear: the operand and the carry come back as they were
C12_Witness ==
    /\ call.op = "barrel_shifter"
    /\ call.shift_type = 1
    /\ call.shift_amount = 0
    /\ call.is_register
    /\ call.operand = W(\h8000, \h0001)
    /\ ~call.old_c
    /\ call.result = call.operand
    /\ ~call.carry

\* The bit 31 copied to every bit
SignFill(v) == IF 31 \in v THEN 0..31 ELSE {}

\* The entry of the table of the corner cases for a call that shifts
ShifterTable(v, shift_type, amount, c, is_register) ==
    CASE shift_type = 0 ->
            IF amount < 32 THEN
                [result |-> {i \in 0..31 : i - amount \in v}, carry |-> (32 - amount) \in v]
            ELSE IF amount = 32 THEN [result |-> {}, carry |-> 0 \in v]
            ELSE [result |-> {}, carry |-> FALSE]
      [] shift_type = 1 ->
            IF amount = 0 \/ amount = 32 THEN [result |-> {}, carry |-> 31 \in v]
            ELSE IF amount < 32 THEN
                [result |-> {i \in 0..31 : i + amount \in v}, carry |-> (amount - 1) \in v]
            ELSE [result |-> {}, carry |-> FALSE]
      [] shift_type = 2 ->
            IF amount = 0 \/ amount >= 32 THEN [result |-> SignFill(v), carry |-> 31 \in v]
            ELSE [result |-> {i \in 0..31 : i + amount \in v}
                                \cup (SignFill(v) \cap ((32 - amount)..31)),
                  carry |-> (amount - 1) \in v]
      [] shift_type = 3 ->
            IF amount = 0 THEN
                [result |-> {i \in 0..30 : i + 1 \in v} \cup (IF c THEN {31} ELSE {}),
                 carry |-> 0 \in v]
            ELSE IF amount % 32 = 0 THEN [result |-> v, carry |-> 31 \in v]
            ELSE [result |-> {i \in 0..31 : (i + amount) % 32 \in v},
                  carry |-> ((amount % 32) - 1) \in v]

\* C13: outside the no-shift cases the barrel shifter returns the entry of
\* the table of the corner cases for every operand and carry-in (immediate
\* amount 0, amount 32, amounts above 32, and the last bit shifted out as
\* the carry for the amounts 1..31), and reports that it shifted.
C13_ShifterCornerCases ==
    (/\ call.op = "barrel_shifter"
     /\ ~NoShiftCase(call.shift_type, call.shift_amount, call.is_register))
        => \E entry \in {ShifterTable(call.operand, call.shift_type, call.shift_amount,
                                      call.old_c, call.is_register)} :
              /\ call.result = entry.result
              /\ call.carry = entry.carry
              /\ call.there_is_shift

\* ROR #0 of an immediate (RRX) with the carry set: the carry enters at bit
\* 31 and bit 0 leaves as the carry
C13_Witness ==
    /\ call.op = "barrel_shifter"
    /\ call.shift_type = 3
    /\ call.shift_amount = 0
    /\ ~call.is_register
    /\ call.old_c
    /\ call.operand = W(\h7FFF, \hFFFE)
    /\ call.result = W(\hBFFF, \hFFFF)
    /\ ~call.carry
    /\ call.there_is_shift

(***************************************************************************)
(* Properties of the instructions                                          *)
(***************************************************************************)
\* The ready call of step that is about to be made is the first call of an
\* instruction of the class whose condition passes
FirstCallOf(op, type) ==
    /\ op.n_wait = "HIGH"
    /\ op.step_before = STEP0
    /\ op.type = type
    /\ op.passed

\* The same compare with the S bit set and no destination
WithFlagsBit(self) ==
    [self EXCEPT !.arm_current_execute = (@ \ (12..15)) \cup {20}]

\* The value of r0-r14 in every mode
GeneralRegisters(rf) ==
    [mode \in Modes |->
        [index \in 0..14 |-> get_register(write_cpsr(rf, U(mode)).rf, index, 0)]]

\* C14: a data-processing instruction with one of the opcodes 8-11
\* (TST/TEQ/CMP/CMN) changes no general register and updates the flags as
\* the compare with the S bit set does, whether its S bit is set or clear.
C14_CompareOnlyUpdatesFlags ==
    [][(FirstCallOf(last_op', "DataProcessing")
            /\ is_test_opcode(Field(cpu, 24, 21)))
         => (/\ ~panicked'
             /\ GeneralRegisters(cpu'.rf) = GeneralRegisters(cpu.rf)
             /\ cpu'.rf.cpsr
                  = arm_data_processing(WithFlagsBit(fetch(cpu, response)),
                                        next_request(cpu)).cpu.rf.cpsr)]_vars

\* The last call of step retired an instruction of the class that took more
\* than one call and whose condition passes
Retired(type) ==
    /\ last_op.n_wait = "HIGH"
    /\ last_op.type = type
    /\ last_op.passed
    /\ last_op.step_before # STEP0
    /\ cpu.instruction_step = STEP0
    /\ ~panicked

Flags(rf) == get_cpsr(rf) \cap (28..31)

\* The value the register has in the mode the CPU was in before the trap
InInterruptedMode(rf, index) ==
    get_register(write_cpsr(rf, get_cpsr(snapshot.trap.rf)).rf, index, 0)

\* What holds when a trap to the mode and the vector retires, but for the
\* registers of the interrupted mode
TrapEntered(mode, vector) ==
    /\ get_mode(cpu.rf) = mode
    /\ get_spsr(cpu.rf) = get_cpsr(snapshot.trap.rf)
    /\ Flags(cpu.rf) = Flags(snapshot.trap.rf)
    /\ get_register(cpu.rf, 14, 0) = wrapping_add(snapshot.trap.current_address, U(4))
    /\ \A i \in DOMAIN cpu.arm_instruction_queue :
            cpu.arm_instruction_queue[i].addr = U(vector + 4 * i)
    /\ cpu.current_address = U(vector)
    /\ cpu.arm_current_execute = memory_get(memory, U(vector))

\* C15 as stated: when a software interrupt (an undefined instruction) whose
\* condition passes retires, the mode is SUPERVISOR (UND), the SPSR of the
\* mode holds the CPSR of before the instruction, the flags are unchanged,
\* r14 of the mode is the address of the instruction + 4, the queue was
\* flushed and the instruction at the vector 0x08 (0x04) executes next, and
\* r13 and r14 of the interrupted mode are unchanged.
C15_TrapEntryAsStated ==
    /\ Retired("SoftwareInterrupt") =>
          (/\ TrapEntered(SUPERVISOR, 8)
           /\ \A index \in {13, 14} :
                InInterruptedMode(cpu.rf, index) = get_register(snapshot.trap.rf, index, 0))
    /\ Retired("Undefined") =>
          (/\ TrapEntered(UND, 4)
           /\ \A index \in {13, 14} :
                InInterruptedMode(cpu.rf, index) = get_register(snapshot.trap.rf, index, 0))

\* C15 amended: the same, r14 of the interrupted mode being unchanged when
\* the interrupted mode is not the mode the trap enters.
C15_TrapEntry ==
    /\ Retired("SoftwareInterrupt") =>
          (/\ TrapEntered(SUPERVISOR, 8)
           /\ InInterruptedMode(cpu.rf, 13) = get_register(snapshot.trap.rf, 13, 0)
           /\ get_mode(snapshot.trap.rf) # SUPERVISOR
                => InInterruptedMode(cpu.rf, 14) = get_register(snapshot.trap.rf, 14, 0))
    /\ Retired("Undefined") =>
          (/\ TrapEntered(UND, 4)
           /\ InInterruptedMode(cpu.rf, 13) = get_register(snapshot.trap.rf, 13, 0)
           /\ get_mode(snapshot.trap.rf) # UND
                => InInterruptedMode(cpu.rf, 14) = get_register(snapshot.trap.rf, 14, 0))

\* A software interrupt taken in the supervisor mode retired: r14 of the
\* interrupted mode is the register it wrote
C15_Witness ==
    /\ Retired("SoftwareInterrupt")
    /\ get_mode(snapshot.trap.rf) = SUPERVISOR
    /\ get_register(snapshot.trap.rf, 14, 0) = W(\h0800, \h0008)
    /\ get_register(cpu.rf, 14, 0) = U(12)


\* MOVS pc, r14, whatever its condition
IsMovsPcR14(word) == word \ (28..31) = W(\h01B0, \hF00E)

\* The instruction in flight is a MOVS pc, r14 whose condition passes, begun
\* in the supervisor mode with the SPSR and the r14 that the last software
\* interrupt, taken from another mode, wrote
ReturnFromSwi(entry, trap) ==
    /\ IsMovsPcR14(entry.arm_current_execute)
    /\ check_condition_code(entry.rf, Field(entry, 31, 28))
    /\ decode_arm(trap.arm_current_execute) = "SoftwareInterrupt"
    /\ get_mode(entry.rf) = SUPERVISOR
    /\ get_mode(trap.rf) # SUPERVISOR
    /\ get_spsr(entry.rf) = get_cpsr(trap.rf)
    /\ get_register(entry.rf, 14, 0) = wrapping_add(trap.current_address, U(4))

\* C16: the calls of a MOVS pc, r14 that returns from a software interrupt
\* taken from mode M do not panic, and when it retires the CPSR is the one
\* saved in the SPSR at the entry of the handler (mode M again), the
\* instruction that follows the SWI executes next, and r13 and r14 of mode M
\* are what they were before the trap.
C16_ReturnFromSwiRestores ==
    [][(last_op'.n_wait = "HIGH" /\ ReturnFromSwi(snapshot'.entry, snapshot'.trap))
         => (/\ ~panicked'
             /\ cpu'.instruction_step = STEP0 =>
                  (/\ get_cpsr(cpu'.rf) = get_cpsr(snapshot'.trap.rf)
                   /\ cpu'.current_address
                        = wrapping_add(snapshot'.trap.current_address, U(4))
                   /\ \A index \in {13, 14} :
                        get_register(cpu'.rf, index, 0)
                            = get_register(snapshot'.trap.rf, index, 0)))]_vars


\* The calls the claim gives a multiply that begins in the state entry:
\* 1 + (4 - k) + bonus, k the leading zero bytes of Rs
LeadingZeroBytes(word) ==
    IF word \cap (24..31) # {} THEN 0
    ELSE IF word \cap (16..23) # {} THEN 1
    ELSE IF word \cap (8..15) # {} THEN 2
    ELSE IF word # {} THEN 3
    ELSE 4

MultiplyBonus(opcode) == IF opcode = 0 THEN 0 ELSE IF opcode \in {5, 7} THEN 2 ELSE 1

MultiplyCalls(entry) ==
    1 + (4 - LeadingZeroBytes(get_register(entry.rf, Field(entry, 11, 8), 0)))
      + MultiplyBonus(Field(entry, 24, 21))

\* C17: a call of a multiply whose condition passes does not panic, and it
\* retires the multiply exactly when it is call number 1 + (4 - k) + bonus of
\* the instruction, for every Rs, Rs = 0 included.
C17_MultiplyCalls ==
    [][(last_op'.n_wait = "HIGH" /\ last_op'.type = "Multiply" /\ last_op'.passed)
         => (/\ ~panicked'
             /\ (cpu'.instruction_step = STEP0)
                    <=> (inflight + 1 = MultiplyCalls(snapshot'.entry)))]_vars


(***************************************************************************)
(* data_processing_test_2 for every loop bound n in 0..MaxLoopCount, the   *)
(* bus always ready, for as many calls of step as one wishes.              *)
(***************************************************************************)
MaxLoopCount == 5

\* The program of the test with mov r1, n
LoopProgram(n) ==
    M(\h0800, \h0000, \hE1A0, \h0000) @@ M(\h0800, \h0004, \hE3A0, \h0000)
 @@ M(\h0800, \h0008, \hE3A0, \h1000 + n) @@ M(\h0800, \h000C, \hE150, \h0001)
 @@ M(\h0800, \h0010, \hAA00, \h0001) @@ M(\h0800, \h0014, \hE280, \h0001)
 @@ M(\h0800, \h0018, \hEAFF, \hFFFB) @@ M(\h0800, \h001C, \hEAFF, \hFFFE)

InitLoop ==
    /\ cpu = ARM7TDMI_new
    /\ response = response_new
    /\ request = next_request(ARM7TDMI_new)
    /\ memory \in {LoopProgram(n) : n \in 0..MaxLoopCount}
    /\ panicked = FALSE
    /\ steps = 0
    /\ inflight = 0
    /\ last_op = [n_wait |-> "NONE", step_before |-> STEP0, passed |-> FALSE,
                  type |-> "DataProcessing"]
    /\ snapshot = [entry |-> ARM7TDMI_new, trap |-> ARM7TDMI_new]
    /\ RegisterFileUntouched

\* One iteration of the for loop of the test, which here has no last one:
\* steps keeps the parity of the number of calls
StepLoop ==
    /\ ~panicked
    /\ \E overflow_checks \in BOOLEAN :
       \E m \in {step(cpu, [response EXCEPT !.n_wait = "HIGH"], overflow_checks)} :
       \E sv \in {serve(memory, response, m.req)} :
            /\ cpu' = m.cpu
            /\ request' = m.req
            /\ panicked' = m.panic
            /\ response' = IF m.panic THEN response ELSE sv.response
            /\ memory' = IF m.panic THEN memory ELSE sv.memory
            /\ inflight' = IF m.cpu.instruction_step = STEP0 /\ ~m.panic THEN 0
                           ELSE IF inflight > MaxInstructionSteps THEN inflight
                           ELSE inflight + 1
    /\ steps' = (steps + 1) % 2
    /\ last_op' = op_of("HIGH")
    /\ snapshot' = snapshot_of(op_of("HIGH"))
    /\ UNCHANGED rf_vars

\* The for loop of the test makes its next call: what StepLoop does to steps,
\* enabled exactly when StepLoop is (step is defined on every state)
NextCall == ~panicked /\ steps' = (steps + 1) % 2

\* The test goes on calling step: no call waits for ever
SpecLoop == InitLoop /\ [][StepLoop]_vars /\ WF_steps(NextCall)

\* The loop bound of the program, r0 as a number, the self-branch at xxx
LoopBound == Bits(memory[W(\h0800, \h0008)], 7, 0)
LoopR0 == Bits(get_register(cpu.rf, 0, 0), 15, 0)
AtXxx == cpu.current_address = W(\h0800, \h001C) /\ ~panicked

\* C18: the loop eventually reaches the self-branch at xxx with r0 = n and
\* stays there with r0 = n for ever; r0 never exceeds n; and the call that
\* executes BGE takes the branch exactly when the flags satisfy N = V.
C18_LoopReachesBound ==
    /\ <>[](AtXxx /\ LoopR0 = LoopBound)
    /\ [](LoopR0 <= LoopBound /\ get_register(cpu.rf, 0, 0) \subseteq 0..15)
    /\ [][(cpu.current_address = W(\h0800, \h0010) /\ cpu.instruction_step = STEP0)
            => ((cpu'.instruction_step # STEP0)
                    <=> (is_flag_set(cpu.rf, "N") = is_flag_set(cpu.rf, "V")))]_vars

\* The self-branch reached after two or more iterations
C18_Witness ==
    /\ AtXxx
    /\ LoopBound >= 2
    /\ LoopR0 = LoopBound
    /\ decode_arm(cpu.arm_current_execute) = "Branch"


(***************************************************************************)
(* decode_arm called directly on words that cover every value of the bits *)
(* 27..20 and 7..4, with the patterns of the bits 19..8 that the formats   *)
(* test, under several conditions.                                         *)
(***************************************************************************)
\* The bits 27..20, 19..8 and 7..4 of the word; the condition comes with the call
InitDecode ==
    /\ CpuUntouched
    /\ register_file = RegisterFile_new
    /\ shadow = [c \in Copies |-> IF c = <<"all", 15>> THEN W(\h07ff, \hfff8) ELSE {}]
    /\ calls = 0
    /\ \E high \in 0..255, middle \in {\h000, \hFFF, \hF00, \h0F0, \h00F}, low \in 0..15 :
            call = [op |-> "word",
                    data |-> {i + 20 : i \in BitsOf(high, 8)}
                                \cup {i + 8 : i \in BitsOf(middle, 12)}
                                \cup {i + 4 : i \in BitsOf(low, 4)},
                    class |-> "none"]

\* decode_arm(data), data being the word under the condition
CallDecodeArm(condition) ==
    /\ call.op = "word"
    /\ \E data \in {call.data \cup {i + 28 : i \in BitsOf(condition, 4)}} :
            call' = [op |-> "decode_arm", data |-> data, class |-> decode_arm(data)]
    /\ UNCHANGED <<register_file, shadow, calls>>
    /\ UNCHANGED cpu_vars

SpecDecode == InitDecode /\ [][\E condition \in {0, 9, 14, 15} : CallDecodeArm(condition)]_vars


(***************************************************************************)
(* Properties of decode_arm                                                *)
(***************************************************************************)
\* The formats in the order of the claim, as the bits 27..0 they fix
ArmFormats ==
    << [class |-> "BranchAndExchange",  mask |-> W(\h0FFF, \hFFF0), format |-> W(\h012F, \hFF10)],
       [class |-> "BlockDataTransfer",  mask |-> W(\h0E00, \h0000), format |-> W(\h0800, \h0000)],
       [class |-> "Branch",             mask |-> W(\h0E00, \h0000), format |-> W(\h0A00, \h0000)],
       [class |-> "SoftwareInterrupt",  mask |-> W(\h0F00, \h0000), format |-> W(\h0F00, \h0000)],
       [class |-> "Undefined",          mask |-> W(\h0E00, \h0010), format |-> W(\h0600, \h0010)],
       [class |-> "SingleDataTransfer", mask |-> W(\h0C00, \h0000), format |-> W(\h0400, \h0000)],
       [class |-> "SingleDataSwap",     mask |-> W(\h0F80, \h0FF0), format |-> W(\h0100, \h0090)],
       [class |-> "Multiply",           mask |-> W(\h0F00, \h00F0), format |-> W(\h0000, \h0090)],
       [class |-> "HwTransfer",         mask |-> W(\h0E00, \h0090), format |-> W(\h0000, \h0090)],
       [class |-> "PsrTransferMRS",     mask |-> W(\h0FBF, \h0000), format |-> W(\h010F, \h0000)],
       [class |-> "PsrTransferMSR",     mask |-> W(\h0DB0, \hF000), format |-> W(\h0120, \hF000)],
       [class |-> "DataProcessing",     mask |-> W(\h0C00, \h0000), format |-> {}] >>

\* The formats that the bits 27..0 of the word match
Matching(data) ==
    {i \in DOMAIN ArmFormats : (data \cap (0..27)) \cap ArmFormats[i].mask = ArmFormats[i].format}

FirstMatch(data) ==
    IF Matching(data) = {} THEN "Unimplemented"
    ELSE ArmFormats[CHOOSE i \in Matching(data) : \A j \in Matching(data) : i <= j].class

\* C19: decode_arm gives a word the class of the first format it matches in
\* the order of the claim, a class that the bits 27..0 alone determine, and
\* the words it classes Unimplemented are exactly those whose bits 27..24
\* are 1100, 1101 or 1110.
C19_DecodeArmFirstMatch ==
    call.op = "decode_arm" =>
        /\ call.class = FirstMatch(call.data)
        /\ (call.class = "Unimplemented") <=> (Bits(call.data, 27, 24) \in {12, 13, 14})

\* A multiply under the condition AL, which matches the formats of the
\* multiply, the half-word transfer and the data processing
C19_Witness ==
    /\ call.op = "decode_arm"
    /\ call.class = "Multiply"
    /\ Bits(call.data, 31, 28) = 14
    /\ Matching(call.data) = {8, 9, 12}


(***************************************************************************)
(* instruction::decode_thumb, called directly on every 16-bit word         *)
(***************************************************************************)
\* The class of the word, or the panic of the last line
decode_thumb(data) ==
    CASE and(data, U(\hF000)) = U(\hF000) -> [panic |-> FALSE, class |-> "LongBranchWithLink"]
      [] and(data, U(\hF800)) = U(\hE000) -> [panic |-> FALSE, class |-> "UncoditionalBranch"]
      [] and(data, U(\hFF00)) = U(\hDF00) -> [panic |-> FALSE, class |-> "SoftwareInterrupt"]
      [] and(data, U(\hF000)) = U(\hD000) -> [panic |-> FALSE, class |-> "ConditionalBranch"]
      [] and(data, U(\hF000)) = U(\hC000) -> [panic |-> FALSE, class |-> "MultipleLoadStore"]
      [] and(data, U(\hF600)) = U(\hB400) -> [panic |-> FALSE, class |-> "PushPopRegister"]
      [] and(data, U(\hFF00)) = U(\hB000) -> [panic |-> FALSE, class |-> "AddOffsetToSp"]
      [] and(data, U(\hF000)) = U(\hA000) -> [panic |-> FALSE, class |-> "LoadAddress"]
      [] and(data, U(\hF000)) = U(\h9000) -> [panic |-> FALSE, class |-> "SpRelativeLoadStore"]
      [] and(data, U(\hF000)) = U(\h8000) -> [panic |-> FALSE, class |-> "LoadStoreHalfWord"]
      [] and(data, U(\hE000)) = U(\h6000) -> [panic |-> FALSE, class |-> "LoadStoreImmOffset"]
      [] and(data, U(\hF200)) = U(\h5200) -> [panic |-> FALSE, class |-> "LoadStoreSignExt"]
      [] and(data, U(\hF200)) = U(\h5000) -> [panic |-> FALSE, class |-> "LoadStoreRegOffset"]
      [] and(data, U(\hF800)) = U(\h4800) -> [panic |-> FALSE, class |-> "PcRelativeLoad"]
      [] and(data, U(\hFC00)) = U(\h4400) -> [panic |-> FALSE, class |-> "HiRegisterBx"]
      [] and(data, U(\hFC00)) = U(\h4000) -> [panic |-> FALSE, class |-> "Alu"]
      [] and(data, U(\hE000)) = U(\h2000) -> [panic |-> FALSE, class |-> "AluImmediate"]
      [] and(data, U(\hF800)) = U(\h1800) -> [panic |-> FALSE, class |-> "AddSubtract"]
      [] and(data, U(\hE000)) = U(\h0000) -> [panic |-> FALSE, class |-> "MoveShiftedRegister"]
      [] OTHER -> [panic |-> TRUE, class |-> "none"]

ThumbInstructionType ==
    {"MoveShiftedRegister", "AddSubtract", "AluImmediate", "Alu", "HiRegisterBx",
     "PcRelativeLoad", "LoadStoreRegOffset", "LoadStoreSignExt", "LoadStoreImmOffset",
     "LoadStoreHalfWord", "SpRelativeLoadStore", "LoadAddress", "AddOffsetToSp",
     "PushPopRegister", "MultipleLoadStore", "ConditionalBranch", "SoftwareInterrupt",
     "UncoditionalBranch", "LongBranchWithLink"}

InitThumb ==
    /\ CpuUntouched
    /\ register_file = RegisterFile_new
    /\ shadow = [c \in Copies |-> IF c = <<"all", 15>> THEN W(\h07ff, \hfff8) ELSE {}]
    /\ calls = 0
    /\ \E high \in 0..255, low \in 0..255 :
            call = [op |-> "word", data |-> W(0, 256 * high + low),
                    class |-> "none", panic |-> FALSE]

CallDecodeThumb ==
    /\ call.op = "word"
    /\ \E out \in {decode_thumb(call.data)} :
            call' = [op |-> "decode_thumb", data |-> call.data,
                     class |-> out.class, panic |-> out.panic]
    /\ UNCHANGED <<register_file, shadow, calls>>
    /\ UNCHANGED cpu_vars

\* thumb_add_offset_to_sp: both branches of the source add the offset
thumb_add_offset_to_sp(self) ==
    LET opcode == Field(self, 7, 7)
        nn == shl(get_range(self.arm_current_execute, 6, 0), 2)
    IN
    IF opcode = 0
    THEN [self EXCEPT !.rf = write_register(@, 13, wrapping_add(get_register(self.rf, 13, 0), nn))]
    ELSE [self EXCEPT !.rf = write_register(@, 13, wrapping_add(get_register(self.rf, 13, 0), nn))]

\* The handler of a word that decode_thumb classifies as AddOffsetToSp,
\* called on a CPU whose r13 was written first; snapshot.entry is the CPU
\* as the handler finds it
CallThumbAddOffsetToSp ==
    /\ call.op = "decode_thumb"
    /\ ~call.panic
    /\ call.class = "AddOffsetToSp"
    /\ \E sp \in {{}, U(\h0200), W(\h0300, \h7F00), W(\hFFFF, \hFFFC)} :
       \E self \in {[cpu EXCEPT !.arm_current_execute = call.data,
                                !.rf = write_register(@, 13, sp)]} :
            /\ snapshot' = [snapshot EXCEPT !.entry = self]
            /\ cpu' = thumb_add_offset_to_sp(self)
    /\ call' = [call EXCEPT !.op = "thumb_add_offset_to_sp"]
    /\ UNCHANGED <<response, request, memory, panicked, steps, inflight, last_op>>
    /\ UNCHANGED <<register_file, shadow, calls>>

SpecThumb == InitThumb /\ [][CallDecodeThumb \/ CallThumbAddOffsetToSp]_vars

\* C20: decode_thumb gives every 16-bit word one class without a failure,
\* the first that matches: 0xDFxx is SoftwareInterrupt, 00011xxx is
\* AddSubtract, the 0101 words are LoadStoreSignExt with bit 9 set and
\* LoadStoreRegOffset with bit 9 clear, 1011x10x is PushPopRegister and
\* 10110000 is AddOffsetToSp.
C20_DecodeThumbTotal ==
    call.op = "decode_thumb" =>
        /\ ~call.panic
        /\ call.class \in ThumbInstructionType
        /\ Bits(call.data, 15, 8) = \hDF => call.class = "SoftwareInterrupt"
        /\ Bits(call.data, 15, 11) = 3 => call.class = "AddSubtract"
        /\ Bits(call.data, 15, 12) = 5 =>
                call.class = (IF 9 \in call.data THEN "LoadStoreSignExt"
                              ELSE "LoadStoreRegOffset")
        /\ (Bits(call.data, 15, 12) = 11 /\ 10 \in call.data /\ 9 \notin call.data)
                => call.class = "PushPopRegister"
        /\ Bits(call.data, 15, 8) = \hB0 => call.class = "AddOffsetToSp"


(***************************************************************************)
(* Properties of the operands and of the timing of the instructions        *)
(***************************************************************************)
\* The operand encodings that the hardware forbids
Forbidden(word) ==
    LET type == decode_arm(word) IN
    \/ type = "DataProcessing" /\ 25 \notin word /\ 4 \in word /\ Bits(word, 11, 8) = 15
    \/ type = "SingleDataTransfer" /\ 25 \in word /\ Bits(word, 3, 0) = 15
    \/ type = "HwTransfer" /\ 22 \notin word /\ Bits(word, 3, 0) = 15
    \/ type = "SingleDataSwap"
            /\ 15 \in {Bits(word, 19, 16), Bits(word, 15, 12), Bits(word, 3, 0)}
    \/ type = "PsrTransferMRS" /\ Bits(word, 15, 12) = 15
    \/ type = "PsrTransferMSR" /\ 25 \notin word /\ Bits(word, 3, 0) = 15
    \/ type = "BlockDataTransfer" /\ Bits(word, 19, 16) = 15
    \/ type = "HwTransfer" /\ 20 \notin word /\ Bits(word, 6, 5) \in {2, 3}
            /\ (Bits(word, 15, 12) % 2 = 1 \/ Bits(word, 15, 12) = 14)

\* C21: a call of an instruction with a forbidden operand encoding whose
\* condition passes either halts with a fatal error or, the error being
\* still to come, writes no register, no flag and no memory word and does
\* not retire the instruction.
C21_ForbiddenOperandsHalt ==
    [][(last_op'.n_wait = "HIGH" /\ last_op'.passed /\ Forbidden(cpu.arm_current_execute))
         => \/ panicked'
            \/ /\ cpu'.rf = cpu.rf
               /\ request'.nr_w = "LOW"
               /\ cpu'.instruction_step # STEP0]_vars


(***************************************************************************)
(* memory::Memory, called directly as test_memory does, on a memory of     *)
(* MemorySize bytes.  Addresses and sizes are numbers, data are words.     *)
(***************************************************************************)
MemorySize == 8
MaxWrites == 2

Memory_new(init_address, size, rom) ==
    [is_read_only |-> rom,
     data |-> [i \in 0..(size \div 4) - 1 |-> {}],
     init_address |-> init_address,
     size |-> size]

\* Variant of Memory_read that rotates the word to the byte addressed
Memory_read_rotated(mem, address, mas) ==
    IF address < mem.init_address \/ address - mem.init_address > mem.size
        \/ (address - mem.init_address) \div 4 \notin DOMAIN mem.data
    THEN [panic |-> TRUE, data |-> {}]
    ELSE [panic |-> FALSE,
          data |-> rotate_right(mem.data[(address - mem.init_address) \div 4],
                                8 * (address % 4))]

\* Memory::read; the subtraction of a larger init_address either panics or
\* wraps to a number above size, and an index past the vector panics
Memory_read(mem, address, mas) ==
    IF address < mem.init_address \/ address - mem.init_address > mem.size
        \/ (address - mem.init_address) \div 4 \notin DOMAIN mem.data
    THEN [panic |-> TRUE, data |-> {}]
    ELSE [panic |-> FALSE, data |-> mem.data[(address - mem.init_address) \div 4]]

\* Memory::write; the word that a byte or a halfword is merged into is read
\* at (address >> 2) - init_address
Memory_write(mem, address, data, mas) ==
    LET index == (address - mem.init_address) \div 4
        merged == (address \div 4) - mem.init_address
        mask == IF mas = "BYTE" THEN (8 * (address % 4))..(8 * (address % 4) + 7)
                ELSE (16 * ((address \div 2) % 2))..(16 * ((address \div 2) % 2) + 15)
    IN
    IF address < mem.init_address \/ address - mem.init_address > mem.size
    THEN [panic |-> TRUE, mem |-> mem]
    ELSE IF mem.is_read_only THEN [panic |-> FALSE, mem |-> mem]
    ELSE IF mas = "WORD" THEN
        IF index \notin DOMAIN mem.data THEN [panic |-> TRUE, mem |-> mem]
        ELSE [panic |-> FALSE, mem |-> [mem EXCEPT !.data[index] = data]]
    ELSE IF merged \notin DOMAIN mem.data \/ index \notin DOMAIN mem.data
    THEN [panic |-> TRUE, mem |-> mem]
    ELSE [panic |-> FALSE,
          mem |-> [mem EXCEPT !.data[index] =
                        (mem.data[merged] \ mask) \cup (data \cap mask)]]

InitMemory ==
    /\ cpu = ARM7TDMI_new
    /\ response = response_new
    /\ request = next_request(ARM7TDMI_new)
    /\ \E init_address \in {0, MemorySize}, rom \in BOOLEAN :
            memory = Memory_new(init_address, MemorySize, rom)
    /\ panicked = FALSE
    /\ steps = 0
    /\ inflight = 0
    /\ last_op = [n_wait |-> "NONE", step_before |-> STEP0, passed |-> FALSE,
                  type |-> "DataProcessing"]
    /\ snapshot = [entry |-> ARM7TDMI_new, trap |-> ARM7TDMI_new]
    /\ register_file = RegisterFile_new
    /\ shadow = [c \in Copies |-> IF c = <<"all", 15>> THEN W(\h07ff, \hfff8) ELSE {}]
    /\ calls = 0
    /\ call = [op |-> "new", address |-> 0, mas |-> "WORD", data |-> {}]

CallMemoryWrite(address, data, mas) ==
    /\ ~panicked
    /\ call.op # "read"
    /\ calls < MaxWrites
    /\ \E out \in {Memory_write(memory, address, data, mas)} :
            /\ memory' = out.mem
            /\ panicked' = out.panic
    /\ calls' = calls + 1
    /\ call' = [op |-> "write", address |-> address, mas |-> mas, data |-> data]
    /\ UNCHANGED <<cpu, response, request, steps, inflight, last_op, snapshot,
                   register_file, shadow>>

CallMemoryRead(address, mas) ==
    /\ ~panicked
    /\ call.op # "read"
    /\ \E out \in {Memory_read(memory, address, mas)} :
            /\ panicked' = out.panic
            /\ call' = [op |-> "read", address |-> address, mas |-> mas, data |-> out.data]
    /\ UNCHANGED <<cpu, response, request, memory, steps, inflight, last_op, snapshot,
                   register_file, shadow, calls>>

SpecMemory ==
    InitMemory /\ [][\E address \in 0..(2 * MemorySize + 4), mas \in {"BYTE", "HALFWORD", "WORD"} :
                        \/ CallMemoryRead(address, mas)
                        \/ \E data \in {W(\hAABB, \hCCDD), W(\h1234, \h5678)} :
                                CallMemoryWrite(address, data, mas)]_vars

\* C22: Memory::read of an address of the memory returns, whatever the two
\* low bits of the address and the transfer size, the word stored at the
\* word-aligned address, neither rotated nor masked.
C22_ReadReturnsContainer ==
    (/\ call.op = "read"
     /\ call.address >= memory.init_address
     /\ call.address < memory.init_address + memory.size)
        => /\ ~panicked
           /\ call.data = memory.data[(4 * (call.address \div 4) - memory.init_address) \div 4]
           /\ \A mas \in {"BYTE", "HALFWORD", "WORD"}, low \in 0..3 :
                Memory_read(memory, 4 * (call.address \div 4) + low, mas)
                    = [panic |-> FALSE, data |-> call.data]

\* A byte read of an odd address returns the whole word written there
C22_Witness ==
    /\ call.op = "read"
    /\ call.mas = "BYTE"
    /\ call.address % 4 = 1
    /\ call.data = W(\hAABB, \hCCDD)
    /\ ~panicked


\* The instruction in flight began with a condition that passes
BeganPassing(entry) == check_condition_code(entry.rf, Field(entry, 31, 28))

\* What the shifter reports for the second operand of a data processing
ShifterReportsShift(entry) ==
    /\ 25 \notin entry.arm_current_execute
    /\ barrel_shifter(get_register(entry.rf, Field(entry, 3, 0), 8),
                      Field(entry, 6, 5),
                      IF 4 \in entry.arm_current_execute
                      THEN Bits(get_register(entry.rf, Field(entry, 11, 8), 0), 7, 0)
                      ELSE Field(entry, 11, 7),
                      is_flag_set(entry.rf, "C"),
                      4 \in entry.arm_current_execute).there_is_shift

WritesPc(entry) == Field(entry, 15, 12) = 15 /\ ~is_test_opcode(Field(entry, 24, 21))

DataProcessingCalls(entry) ==
    1 + (IF ShifterReportsShift(entry) THEN 1 ELSE 0) + (IF WritesPc(entry) THEN 2 ELSE 0)

OpcodeFetchAt(req, address) ==
    req.address = address /\ req.nr_w = "LOW" /\ req.n_opc = "LOW"

\* C23: a ready call of a data processing with permitted operands that began
\* with a passing condition does not panic and retires it exactly when it is call number
\* 1 + (1 if the shifter reports a shift) + (2 if Rd = r15 and the opcode is
\* not a test); the last two calls of an instruction that writes r15 find
\* the queue without the words prefetched before, return the opcode fetches
\* of the new PC and of the new PC + 4, and the word at the new PC executes
\* next; any other data processing leaves the prefetched words in the queue.
C23_DataProcessingCalls ==
    [][(/\ last_op'.n_wait = "HIGH"
        /\ last_op'.type = "DataProcessing"
        /\ ~Forbidden(snapshot'.entry.arm_current_execute)
        /\ BeganPassing(snapshot'.entry))
         => /\ ~panicked'
            /\ (cpu'.instruction_step = STEP0)
                    <=> (inflight + 1 = DataProcessingCalls(snapshot'.entry))
            /\ (WritesPc(snapshot'.entry)
                    /\ inflight + 2 = DataProcessingCalls(snapshot'.entry))
                 => /\ OpcodeFetchAt(request', get_register(cpu.rf, 15, 0))
                    /\ cpu'.arm_instruction_queue = << >>
            /\ (WritesPc(snapshot'.entry)
                    /\ inflight + 1 = DataProcessingCalls(snapshot'.entry))
                 => /\ OpcodeFetchAt(request', wrapping_add(get_register(cpu.rf, 15, 0), U(4)))
                    /\ cpu'.current_address = get_register(cpu.rf, 15, 0)
                    /\ cpu'.arm_instruction_queue = << >>
            /\ (~WritesPc(snapshot'.entry) /\ cpu'.instruction_step = STEP0)
                 => /\ fetch(cpu, response).arm_instruction_queue # << >>
                    /\ cpu'.arm_instruction_queue
                            = Tail(fetch(cpu, response).arm_instruction_queue)]_vars


\* The target of the branch that begins in the state entry
BranchTarget(entry) ==
    wrapping_add(wrapping_add(entry.current_address, U(8)),
                 shl(get_range(entry.arm_current_execute, 23, 0)
                        \cup (IF 23 \in entry.arm_current_execute THEN 24..31 ELSE {}), 2))

\* C24: a ready call of a B or BL that began with a passing condition does
\* not panic and retires it exactly when it is the third; the first empties
\* the queue and sets r14 to the address of the branch + 4 for BL, r14 being
\* unchanged by B; the second and the third return the opcode fetches of
\* the target and of the target + 4, the target being the address of the
\* branch + 8 + the sign-extended offset * 4 modulo 2^32; and the word
\* fetched at the target executes next.
C24_BranchCalls ==
    [][(/\ last_op'.n_wait = "HIGH"
        /\ last_op'.type = "Branch"
        /\ BeganPassing(snapshot'.entry))
         => /\ ~panicked'
            /\ (cpu'.instruction_step = STEP0) <=> (inflight = 2)
            /\ get_register(cpu'.rf, 14, 0)
                    = IF 24 \in snapshot'.entry.arm_current_execute
                      THEN wrapping_add(snapshot'.entry.current_address, U(4))
                      ELSE get_register(snapshot'.entry.rf, 14, 0)
            /\ inflight = 0 => cpu'.arm_instruction_queue = << >>
            /\ inflight = 1 => OpcodeFetchAt(request', BranchTarget(snapshot'.entry))
            /\ inflight = 2 =>
                    /\ OpcodeFetchAt(request',
                                     wrapping_add(BranchTarget(snapshot'.entry), U(4)))
                    /\ cpu'.current_address = BranchTarget(snapshot'.entry)
                    /\ cpu'.arm_current_execute = response.data
                    /\ cpu'.arm_instruction_queue = << >>]_vars


\* The second operand of the data processing that begins in the state entry
\* and the carry of its shifter: the 8-bit immediate rotated right by twice
\* the rotation field, or the register through the barrel shifter
ShifterOperand(entry) ==
    LET by_register == 4 \in entry.arm_current_execute IN
    IF 25 \in entry.arm_current_execute THEN
        LET imm == rotate_right(get_range(entry.arm_current_execute, 7, 0),
                                2 * Field(entry, 11, 8))
        IN [result |-> imm,
            carry |-> IF Field(entry, 11, 8) = 0 THEN is_flag_set(entry.rf, "C")
                      ELSE 31 \in imm]
    ELSE barrel_shifter(get_register(entry.rf, Field(entry, 3, 0),
                                     IF by_register THEN 12 ELSE 8),
                        Field(entry, 6, 5),
                        IF by_register
                        THEN Bits(get_register(entry.rf, Field(entry, 11, 8), 0), 7, 0)
                        ELSE Field(entry, 11, 7),
                        is_flag_set(entry.rf, "C"),
                        by_register)

\* The second operand goes through no shift: an immediate without rotation,
\* LSL #0, or a shift by a register that holds 0 in its low byte
NoShiftPerformed(entry) ==
    IF 25 \in entry.arm_current_execute THEN Field(entry, 11, 8) = 0
    ELSE IF 4 \in entry.arm_current_execute
         THEN Bits(get_register(entry.rf, Field(entry, 11, 8), 0), 7, 0) = 0
         ELSE Field(entry, 11, 5) = 0

\* What the ALU gives for the data processing that begins in the state entry
AluOutcome(entry) ==
    alu_operation(entry.rf,
                  get_register(entry.rf, Field(entry, 19, 16),
                               IF 25 \notin entry.arm_current_execute
                                    /\ 4 \in entry.arm_current_execute
                               THEN 12 ELSE 8),
                  ShifterOperand(entry).result,
                  Field(entry, 24, 21))

\* C25: a ready call of a data processing with permitted operands, Rd other
\* than r15 and a passing condition: the first call of one with the S bit
\* or a test opcode sets N to bit 31 of the result and Z to result = 0; for
\* a logical opcode C becomes the carry of the shifter (the old C when no
\* shift is performed, bit 31 of the rotated immediate when the rotation is
\* not zero) and V is unchanged; for an arithmetic opcode C and V are the
\* ones of the ALU.  Every other call leaves the four flags as they are.
C25_DataProcessingFlags ==
    [][(/\ last_op'.n_wait = "HIGH"
        /\ last_op'.type = "DataProcessing"
        /\ ~Forbidden(snapshot'.entry.arm_current_execute)
        /\ BeganPassing(snapshot'.entry)
        /\ Field(snapshot'.entry, 15, 12) # 15)
         => /\ ~panicked'
            /\ IF /\ last_op'.step_before = STEP0
                  /\ \/ 20 \in cpu.arm_current_execute
                     \/ is_test_opcode(Field(cpu, 24, 21))
               THEN \E out \in {AluOutcome(cpu)} : \E sh \in {ShifterOperand(cpu)} :
                    /\ is_flag_set(cpu'.rf, "N") = (31 \in out.result)
                    /\ is_flag_set(cpu'.rf, "Z") = (out.result = {})
                    /\ ~is_test_opcode(Field(cpu, 24, 21))
                         => get_register(cpu'.rf, Field(cpu, 15, 12), 0) = out.result
                    /\ is_logical(Field(cpu, 24, 21))
                         => /\ is_flag_set(cpu'.rf, "C") = sh.carry
                            /\ is_flag_set(cpu'.rf, "V") = is_flag_set(cpu.rf, "V")
                            /\ NoShiftPerformed(cpu)
                                 => is_flag_set(cpu'.rf, "C") = is_flag_set(cpu.rf, "C")
                    /\ ~is_logical(Field(cpu, 24, 21))
                         => /\ is_flag_set(cpu'.rf, "C") = out.c
                            /\ is_flag_set(cpu'.rf, "V") = out.v
               ELSE Flags(cpu'.rf) = Flags(cpu.rf)]_vars

\* movs r2, r0, lsr 31 has retired with V still set by the adds before it
C25_Witness ==
    /\ Retired("DataProcessing")
    /\ snapshot.entry.arm_current_execute = W(\hE1B0, \h2FA0)
    /\ get_register(cpu.rf, 2, 0) = U(1)
    /\ Flags(cpu.rf) = {28}


\* The base, the offset and the data address of the single data transfer that
\* begins in the state entry: the base is Rn (r15 reads as the address of the
\* instruction + 8), the offset is the 12-bit immediate or the shifted Rm,
\* the indexed base is base + offset or base - offset, and the data address
\* is the indexed base when the instruction is pre-indexed, the base otherwise
TransferBase(entry) == get_register(entry.rf, Field(entry, 19, 16), 8)

TransferOffset(entry) ==
    IF 25 \notin entry.arm_current_execute THEN entry.arm_current_execute \cap (0..11)
    ELSE barrel_shifter(get_register(entry.rf, Field(entry, 3, 0), 0),
                        Field(entry, 6, 5), Field(entry, 11, 7),
                        is_flag_set(entry.rf, "C"), FALSE).result

IndexedBase(entry) ==
    IF 23 \in entry.arm_current_execute
    THEN wrapping_add(TransferBase(entry), TransferOffset(entry))
    ELSE wrapping_sub(TransferBase(entry), TransferOffset(entry))

TransferAddress(entry) ==
    IF 24 \in entry.arm_current_execute THEN IndexedBase(entry) ELSE TransferBase(entry)

\* The byte lane k of the word w, zero-extended, and w rotated right by k bytes
ByteLane(w, k) == {i \in 0..7 : i + 8 * k \in w}
RotatedBytes(w, k) == {i \in 0..31 : (i + 8 * k) % 32 \in w}

\* C26: the ready calls of a load (LDR, LDRB) with permitted operands that
\* began with a passing condition: the second one returns the read request
\* of the data address A and writes the indexed base into Rn exactly when
\* the instruction is post-indexed or has the write-back bit, no other
\* register changing; the third one writes into Rd, of the word W of the
\* response, the byte lane A mod 4 zero-extended for LDRB and W rotated
\* right by 8 * (A mod 4) for LDR.
C26_LoadValue ==
    [][(/\ last_op'.n_wait = "HIGH"
        /\ last_op'.type = "SingleDataTransfer"
        /\ 20 \in snapshot'.entry.arm_current_execute
        /\ ~Forbidden(snapshot'.entry.arm_current_execute)
        /\ BeganPassing(snapshot'.entry))
         => /\ ~panicked'
            /\ inflight = 1 =>
                    /\ request'.address = TransferAddress(snapshot.entry)
                    /\ request'.nr_w = "LOW"
                    /\ \A i \in 0..15 :
                        get_register(cpu'.rf, i, 0)
                            = IF /\ i = Field(cpu, 19, 16)
                                 /\ (24 \notin cpu.arm_current_execute
                                        \/ 21 \in cpu.arm_current_execute)
                              THEN IndexedBase(snapshot.entry)
                              ELSE get_register(cpu.rf, i, 0)
            /\ inflight = 2 =>
                    get_register(cpu'.rf, Field(cpu, 15, 12), 0)
                        = IF 22 \in cpu.arm_current_execute
                          THEN ByteLane(response.data,
                                        Bits(TransferAddress(snapshot.entry), 1, 0))
                          ELSE RotatedBytes(response.data,
                                            Bits(TransferAddress(snapshot.entry), 1, 0))]_vars

\* ldr r2, [r0], -1 has retired: r2 holds the word at 0x08000040 rotated by
\* one byte and r0 the base less 1
C26_Witness ==
    /\ Retired("SingleDataTransfer")
    /\ snapshot.entry.arm_current_execute = W(\hE410, \h2001)
    /\ get_register(cpu.rf, 2, 0) = W(\h8481, \h8283)
    /\ get_register(cpu.rf, 0, 0) = W(\h0800, \h0040)
    /\ get_register(cpu.rf, 1, 0) = U(131)


\* The state entry begins a STR or a STRB, and a STRH
IsStore(entry) ==
    /\ decode_arm(entry.arm_current_execute) = "SingleDataTransfer"
    /\ 20 \notin entry.arm_current_execute

IsStoreHalfword(entry) ==
    /\ decode_arm(entry.arm_current_execute) = "HwTransfer"
    /\ 20 \notin entry.arm_current_execute
    /\ Field(entry, 6, 5) = 1

\* The data address of the halfword transfer that begins in the state entry:
\* the offset is the 8-bit immediate split over bits 11..8 and 3..0, or Rm
HalfwordIndexedBase(entry) ==
    LET offset == IF 22 \in entry.arm_current_execute
                  THEN U(16 * Field(entry, 11, 8) + Field(entry, 3, 0))
                  ELSE get_register(entry.rf, Field(entry, 3, 0), 0)
    IN IF 23 \in entry.arm_current_execute
       THEN wrapping_add(TransferBase(entry), offset)
       ELSE wrapping_sub(TransferBase(entry), offset)

StoreIndexedBase(entry) ==
    IF IsStore(entry) THEN IndexedBase(entry) ELSE HalfwordIndexedBase(entry)

\* Rd as a store drives it: r15 is the address of the instruction + 12
StoredRegister(entry) ==
    IF Field(entry, 15, 12) = 15 THEN wrapping_add(entry.current_address, U(12))
    ELSE get_register(entry.rf, Field(entry, 15, 12), 0)

\* C27: the ready calls of a STR, STRB or STRH with permitted operands that
\* began with a passing condition: none panics, the second one retires the
\* instruction, the first returns a read request and the second a write
\* request at the data address: of size BYTE with the low byte of Rd on the
\* four byte lanes for STRB, of size HALFWORD with the low halfword of Rd on
\* both halves for STRH, of size WORD with Rd for STR (r15 as the address
\* of the instruction + 12); r0..r14 other than a written-back base keep
\* their values.
C27_StoreRequest ==
    [][(/\ last_op'.n_wait = "HIGH"
        /\ IsStore(snapshot'.entry) \/ IsStoreHalfword(snapshot'.entry)
        /\ ~Forbidden(snapshot'.entry.arm_current_execute)
        /\ BeganPassing(snapshot'.entry))
         => /\ ~panicked'
            /\ (cpu'.instruction_step = STEP0) <=> (inflight = 1)
            /\ inflight = 0 => request'.nr_w = "LOW" /\ cpu'.rf = cpu.rf
            /\ inflight = 1 =>
                    /\ request'.nr_w = "HIGH"
                    /\ request'.address = IF 24 \in cpu.arm_current_execute
                                          THEN StoreIndexedBase(snapshot.entry)
                                          ELSE TransferBase(snapshot.entry)
                    /\ request'.mas = IF IsStoreHalfword(cpu) THEN "HALFWORD"
                                      ELSE IF 22 \in cpu.arm_current_execute THEN "BYTE"
                                      ELSE "WORD"
                    /\ request'.data
                          = IF IsStoreHalfword(cpu)
                            THEN {i \in 0..31 : i % 16 \in StoredRegister(snapshot.entry)}
                            ELSE IF 22 \in cpu.arm_current_execute
                            THEN {i \in 0..31 : i % 8 \in StoredRegister(snapshot.entry)}
                            ELSE StoredRegister(snapshot.entry)
                    /\ \A i \in 0..14 :
                        get_register(cpu'.rf, i, 0)
                            = IF /\ i = Field(cpu, 19, 16)
                                 /\ (24 \notin cpu.arm_current_execute
                                        \/ 21 \in cpu.arm_current_execute)
                              THEN StoreIndexedBase(snapshot.entry)
                              ELSE get_register(cpu.rf, i, 0)]_vars

\* strb r1, [r0, 1] has retired with the byte 0x84 on the four lanes
C27_Witness ==
    /\ Retired("SingleDataTransfer")
    /\ snapshot.entry.arm_current_execute = W(\hE5C0, \h1001)
    /\ memory_get(memory, U(65)) = W(\h8484, \h8484)
    /\ request.mas = "BYTE"


\* The low width bits of x sign-extended to 32 bits
SignExtended(x, width) ==
    (x \cap (0..(width - 1))) \cup (IF width - 1 \in x THEN width..31 ELSE {})

\* The halfword of the word w that holds the byte lane k (0..3), zero-extended
HalfwordWith(w, k) == {i \in 0..15 : i + 16 * (k \div 2) \in w}

\* What the halfword and signed loads write for the opcode (1 LDRH, 2 LDRSB,
\* 3 LDRSH), the word w of the response and the byte lane k of the address
HalfwordLoaded(opcode, w, k) ==
    CASE opcode = 2 -> SignExtended(ByteLane(w, k), 8)
      [] opcode = 3 /\ k % 2 = 0 -> SignExtended(HalfwordWith(w, k), 16)
      [] opcode = 3 /\ k % 2 = 1 -> SignExtended(ByteLane(w, k), 8)
      [] opcode = 1 /\ k % 2 = 0 -> HalfwordWith(w, k)
      [] opcode = 1 /\ k % 2 = 1 -> RotatedBytes(HalfwordWith(w, k), 1)

\* C28: the third ready call of a LDRH, LDRSB or LDRSH with permitted
\* operands that began with a passing condition writes into Rd: for LDRSB
\* the byte at the data address A sign-extended; for LDRSH the halfword at
\* an even A sign-extended and the byte at an odd A sign-extended; for LDRH
\* the halfword zero-extended, rotated right by 8 within the 32 bits for an
\* odd A; the second call having returned the read request of A.
C28_HalfwordLoadValue ==
    [][(/\ last_op'.n_wait = "HIGH"
        /\ last_op'.type = "HwTransfer"
        /\ 20 \in snapshot'.entry.arm_current_execute
        /\ ~Forbidden(snapshot'.entry.arm_current_execute)
        /\ BeganPassing(snapshot'.entry))
         => /\ ~panicked'
            /\ inflight = 1 =>
                    /\ request'.nr_w = "LOW"
                    /\ request'.address = IF 24 \in cpu.arm_current_execute
                                          THEN HalfwordIndexedBase(snapshot.entry)
                                          ELSE TransferBase(snapshot.entry)
            /\ inflight = 2 =>
                    get_register(cpu'.rf, Field(cpu, 15, 12), 0)
                        = HalfwordLoaded(Field(cpu, 6, 5), response.data,
                                         Bits(IF 24 \in cpu.arm_current_execute
                                              THEN HalfwordIndexedBase(snapshot.entry)
                                              ELSE TransferBase(snapshot.entry), 1, 0))]_vars

\* ldrsh r2, [r0, 0x42] has retired after ldrsb r1, [r0, 0x41]: both values
\* are sign-extended
C28_Witness ==
    /\ Retired("HwTransfer")
    /\ snapshot.entry.arm_current_execute = W(\hE1D0, \h24F2)
    /\ get_register(cpu.rf, 2, 0) = W(\hFFFF, \h8182)
    /\ get_register(cpu.rf, 1, 0) = W(\hFFFF, \hFF83)


\* The state entry begins a LDRD, and a STRD
IsLdrd(entry) ==
    /\ decode_arm(entry.arm_current_execute) = "HwTransfer"
    /\ 20 \notin entry.arm_current_execute
    /\ Field(entry, 6, 5) = 2

IsStrd(entry) ==
    /\ decode_arm(entry.arm_current_execute) = "HwTransfer"
    /\ 20 \notin entry.arm_current_execute
    /\ Field(entry, 6, 5) = 3
    /\ Field(entry, 15, 12) # 15

DoublewordAddress(entry) ==
    IF 24 \in entry.arm_current_execute THEN HalfwordIndexedBase(entry)
    ELSE TransferBase(entry)

\* The queue q2 holds no entry that the queue q does not hold
NoNewEntry(q, q2) == q2 = q \/ (q # << >> /\ q2 = Tail(q)) \/ q2 = << >>

\* The request is the opcode fetch that a call of step prepares
PrefetchOf(self, req) == OpcodeFetchAt(req, get_register(self.rf, 15, 8))

\* The ready calls of a LDRD, where aligned tells whether only the LDRD at
\* a multiple of 8 are meant: the fourth retires it; the second and the
\* third return the reads of addr and addr + 4, the first and the fourth
\* opcode fetches; the third writes the word read at addr into Rd and the
\* fourth the word read at addr + 4 into R(d+1), neither queueing the word.
LdrdCall(aligned) ==
    (/\ last_op'.n_wait = "HIGH"
     /\ IsLdrd(snapshot'.entry)
     /\ ~Forbidden(snapshot'.entry.arm_current_execute)
     /\ BeganPassing(snapshot'.entry)
     /\ aligned => Bits(DoublewordAddress(snapshot'.entry), 2, 0) = 0)
      => /\ ~panicked'
         /\ (cpu'.instruction_step = STEP0) <=> (inflight = 3)
         /\ inflight \in {0, 3} => PrefetchOf(cpu, request')
         /\ inflight = 1 =>
                /\ request'.address = DoublewordAddress(snapshot.entry)
                /\ request'.nr_w = "LOW"
         /\ inflight = 2 =>
                /\ request'.address = wrapping_add(DoublewordAddress(snapshot.entry), U(4))
                /\ request'.nr_w = "LOW"
                /\ response.addr = and(DoublewordAddress(snapshot.entry), W(\hFFFF, \hFFFC))
                /\ get_register(cpu'.rf, Field(cpu, 15, 12), 0) = response.data
                /\ NoNewEntry(cpu.arm_instruction_queue, cpu'.arm_instruction_queue)
         /\ inflight = 3 =>
                /\ response.addr = wrapping_add(and(DoublewordAddress(snapshot.entry),
                                                    W(\hFFFF, \hFFFC)), U(4))
                /\ get_register(cpu'.rf, Field(cpu, 15, 12) + 1, 0) = response.data
                /\ NoNewEntry(cpu.arm_instruction_queue, cpu'.arm_instruction_queue)

\* The ready calls of a STRD: the third retires it; the second and the third
\* return the writes of Rd at addr and of R(d+1) at addr + 4, the first an
\* opcode fetch; the third call and the call that follows it queue nothing.
StrdCall ==
    /\ (/\ last_op'.n_wait = "HIGH"
        /\ IsStrd(snapshot'.entry)
        /\ BeganPassing(snapshot'.entry))
         => /\ ~panicked'
            /\ (cpu'.instruction_step = STEP0) <=> (inflight = 2)
            /\ inflight = 0 => PrefetchOf(cpu, request')
            /\ inflight = 1 =>
                   /\ request'.address = DoublewordAddress(snapshot.entry)
                   /\ request'.nr_w = "HIGH"
                   /\ request'.data = get_register(cpu.rf, Field(cpu, 15, 12), 0)
            /\ inflight = 2 =>
                   /\ request'.address
                        = wrapping_add(DoublewordAddress(snapshot.entry), U(4))
                   /\ request'.nr_w = "HIGH"
                   /\ request'.data = get_register(cpu.rf, Field(cpu, 15, 12) + 1, 0)
                   /\ NoNewEntry(cpu.arm_instruction_queue, cpu'.arm_instruction_queue)
    /\ (/\ last_op'.n_wait = "HIGH"
        /\ IsStrd(snapshot.entry)
        /\ BeganPassing(snapshot.entry)
        /\ last_op'.step_before = STEP0
        /\ request.nr_w = "HIGH")
         => NoNewEntry(cpu.arm_instruction_queue, cpu'.arm_instruction_queue)

RegisterList(entry) == entry.arm_current_execute \cap (0..15)

ListLength(entry) == Cardinality(RegisterList(entry))

RegisterAt(entry, k) ==
    CHOOSE r \in RegisterList(entry) :
        Cardinality({x \in RegisterList(entry) : x < r}) = k - 1

BlockStart(entry) ==
    LET base == get_register(entry.rf, Field(entry, 19, 16), 0)
        n == ListLength(entry)
    IN CASE 23 \in entry.arm_current_execute /\ 24 \notin entry.arm_current_execute -> base
         [] 23 \in entry.arm_current_execute /\ 24 \in entry.arm_current_execute ->
                wrapping_add(base, U(4))
         [] 23 \notin entry.arm_current_execute /\ 24 \notin entry.arm_current_execute ->
                wrapping_add(wrapping_sub(base, U(4 * n)), U(4))
         [] 23 \notin entry.arm_current_execute /\ 24 \in entry.arm_current_execute ->
                wrapping_sub(base, U(4 * n))

BlockAddress(entry, k) == wrapping_add(BlockStart(entry), U(4 * (k - 1)))

BaseAfterBlockTransfer(entry, mem) ==
    LET rn == Field(entry, 19, 16)
        base == get_register(entry.rf, rn, 0)
        amount == IF RegisterList(entry) = {} THEN U(64) ELSE U(4 * ListLength(entry))
    IN IF 20 \in entry.arm_current_execute /\ rn \in RegisterList(entry)
       THEN memory_get(mem,
                and(BlockAddress(entry, 1 + Cardinality({x \in RegisterList(entry) : x < rn})),
                    W(\hFFFF, \hFFFC)))
       ELSE IF 21 \notin entry.arm_current_execute THEN base
       ELSE IF 23 \in entry.arm_current_execute THEN wrapping_add(base, amount)
       ELSE wrapping_sub(base, amount)

SwapCall ==
    /\ last_op'.type = "SingleDataSwap"
    /\ last_op'.passed
    /\ ~Forbidden(cpu.arm_current_execute)

\* C32: the second ready call of a SWP or SWPB whose condition passes
\* returns a read request at [Rn] and the third a write request at the same
\* address, both with lock HIGH; every call made between the two, the calls
\* answered while the memory asserts wait included, returns a request with
\* lock HIGH; every other call returns a request with lock LOW.
C32_SwapLocked ==
    [][/\ (SwapCall /\ last_op'.n_wait = "HIGH" /\ cpu.instruction_step = STEP1)
            => /\ request'.nr_w = "LOW"
               /\ request'.address = get_register(cpu.rf, Field(cpu, 19, 16), 0)
               /\ request'.lock = "HIGH"
       /\ (SwapCall /\ last_op'.n_wait = "HIGH" /\ cpu.instruction_step = STEP2)
            => /\ request'.nr_w = "HIGH"
               /\ request'.address = get_register(cpu.rf, Field(cpu, 19, 16), 0)
               /\ request'.address = cpu.last_used_address
               /\ request'.lock = "HIGH"
       /\ (SwapCall /\ last_op'.n_wait = "LOW" /\ cpu.instruction_step = STEP2)
            => request'.lock = "HIGH"
       /\ ~(SwapCall /\ cpu.instruction_step \in {STEP1, STEP2})
            => request'.lock = "LOW"]_vars


\* The source of the MSR that begins in the state entry: the 8-bit immediate
\* rotated right by twice the rotation field, or Rm
MsrSource(entry) ==
    IF 25 \in entry.arm_current_execute
    THEN {i \in 0..31 : (i + 2 * Field(entry, 11, 8)) % 32 \in entry.arm_current_execute \cap (0..7)}
    ELSE get_register(entry.rf, Field(entry, 3, 0), 0)

\* The PSR that the PSR transfer of the word addresses, in the register file rf
TargetPsr(rf, word) == IF 22 \in word THEN get_spsr(rf) ELSE get_cpsr(rf)

ModeEncodings == {SYSTEM, USER, FIQ, IRQ, SUPERVISOR, ABORT, UND}

\* The halts that are documented for a PSR transfer: a forbidden operand,
\* the SPSR addressed in a mode without SPSR, and an MSR whose control field
\* is selected outside the USER mode with a source that holds no mode encoding
DocumentedPsrHalt(entry) ==
    \/ Forbidden(entry.arm_current_execute)
    \/ 22 \in entry.arm_current_execute /\ get_spsr_panics(entry.rf)
    \/ /\ decode_arm(entry.arm_current_execute) = "PsrTransferMSR"
       /\ 16 \in entry.arm_current_execute
       /\ get_mode(entry.rf) # USER
       /\ Bits(MsrSource(entry), 4, 0) \notin ModeEncodings

\* C33: a ready call of an MRS or MSR whose condition passes, the documented
\* halts apart, does not panic and retires the instruction; an MSR leaves
\* bits 27..8 of the PSR it addresses as they are, with the flag field
\* selected makes bits 31..28 those of the source, with the control field
\* selected outside the USER mode makes bits 7..0 those of the source, and
\* in the USER mode leaves bits 7..0 of the CPSR as they are.
C33_PsrTransfer ==
    [][(/\ last_op'.n_wait = "HIGH"
        /\ last_op'.type \in {"PsrTransferMRS", "PsrTransferMSR"}
        /\ last_op'.passed
        /\ ~DocumentedPsrHalt(cpu))
         => /\ ~panicked'
            /\ cpu'.instruction_step = STEP0
            /\ inflight = 0
            /\ last_op'.type = "PsrTransferMSR" =>
                \E before \in {TargetPsr(cpu.rf, cpu.arm_current_execute)} :
                \E after \in {TargetPsr(cpu'.rf, cpu.arm_current_execute)} :
                    /\ after \cap (8..27) = before \cap (8..27)
                    /\ 19 \in cpu.arm_current_execute
                         => after \cap (28..31) = MsrSource(cpu) \cap (28..31)
                    /\ (16 \in cpu.arm_current_execute /\ get_mode(cpu.rf) # USER)
                         => after \cap (0..7) = MsrSource(cpu) \cap (0..7)
                    /\ get_mode(cpu.rf) = USER
                         => get_cpsr(cpu'.rf) \cap (0..7) = get_cpsr(cpu.rf) \cap (0..7)]_vars


\* The 64-bit value a multiply computes from the registers of the state
\* self: the product of Rm and Rs, of their sign extensions for SMULL and
\* SMLAL, plus Rn for MLA and plus RdHi:RdLo for UMLAL and SMLAL, modulo 2^64
MultiplyValue(self) ==
    LET opcode == Field(self, 24, 21)
        op_s == get_register(self.rf, Field(self, 11, 8), 0)
        op_m == get_register(self.rf, Field(self, 3, 0), 0)
        lo == get_register(self.rf, Field(self, 15, 12), 0)
        hi == get_register(self.rf, Field(self, 19, 16), 0)
    IN add64(IF opcode \in {6, 7} THEN mul64(sext64(op_s), sext64(op_m))
             ELSE mul64(op_s, op_m),
             IF opcode = 1 THEN lo
             ELSE IF opcode \in {5, 7} THEN lo \cup {i + 32 : i \in hi}
             ELSE {})

\* C34: a ready call of a multiply that began with a passing condition and
\* has internal cycles left to count does not panic; the call that retires
\* it writes the low 32 bits of the value into Rd for MUL and MLA, bits
\* 63..32 into RdHi and bits 31..0 into RdLo for the long forms; with the S
\* bit N is bit 31 (bit 63 for the long forms) and Z tells that the value
\* written is 0; C and V are as before the call.
C34_MultiplyResult ==
    [][(/\ last_op'.n_wait = "HIGH"
        /\ last_op'.type = "Multiply"
        /\ BeganPassing(snapshot'.entry)
        /\ cpu.instruction_step = STEP1
        /\ cpu.instruction_counter_step > 0
        /\ Field(cpu, 24, 21) \in {0, 1, 4, 5, 6, 7}
        /\ 15 \notin {Field(cpu, 19, 16), Field(cpu, 15, 12)}
        /\ Field(cpu, 19, 16) # Field(cpu, 15, 12))
         => /\ ~panicked'
            /\ Flags(cpu'.rf) \cap {28, 29} = Flags(cpu.rf) \cap {28, 29}
            /\ cpu'.instruction_step = STEP0 =>
                \E value \in {MultiplyValue(cpu)} :
                IF Field(cpu, 24, 21) <= 1
                THEN /\ get_register(cpu'.rf, Field(cpu, 19, 16), 0) = value \cap (0..31)
                     /\ 20 \in cpu.arm_current_execute =>
                            /\ is_flag_set(cpu'.rf, "N") = (31 \in value)
                            /\ is_flag_set(cpu'.rf, "Z") = (value \cap (0..31) = {})
                ELSE /\ get_register(cpu'.rf, Field(cpu, 19, 16), 0)
                            = {i - 32 : i \in value \cap (32..63)}
                     /\ get_register(cpu'.rf, Field(cpu, 15, 12), 0) = value \cap (0..31)
                     /\ 20 \in cpu.arm_current_execute =>
                            /\ is_flag_set(cpu'.rf, "N") = (63 \in value)
                            /\ is_flag_set(cpu'.rf, "Z") = (value = {})]_vars


\* The value of Rn as a branch and exchange of the state self reads it
ExchangeOperand(self) == get_register(self.rf, Field(self, 3, 0), 8)

\* The half of the word data that is stored at the address target
HalfwordAt(data, target) ==
    IF 1 \in target THEN {i - 16 : i \in data \cap (16..31)} ELSE data \cap (0..15)

\* C35: the ready calls of a BX whose condition passes. The first empties
\* the queue. The second returns the opcode fetch of the target, Rn with bit
\* 0 cleared, of a halfword when bit 0 of Rn is set and of a word when it is
\* clear. The third returns the opcode fetch of the target + 2 or + 4 of the
\* same size and retires the BX: CPSR bit 5 is then bit 0 of Rn, the queue
\* is empty and the instruction to execute is the response to the fetch of
\* the target, the half of it that bit 1 of the target selects when Rn has
\* bit 0 set.
C35_BranchAndExchange ==
    [][(/\ last_op'.n_wait = "HIGH"
        /\ last_op'.type = "BranchAndExchange"
        /\ BeganPassing(snapshot'.entry))
         => \E rn \in {ExchangeOperand(cpu)} : \E target \in {rn \ {0}} :
            /\ ~panicked'
            /\ inflight = 0 => cpu'.arm_instruction_queue = << >>
            /\ inflight = 1 =>
                /\ OpcodeFetchAt(request', target)
                /\ request'.mas = IF 0 \in rn THEN "HALFWORD" ELSE "WORD"
                /\ cpu'.arm_instruction_queue = << >>
            /\ inflight = 2 =>
                /\ OpcodeFetchAt(request', wrapping_add(target, IF 0 \in rn THEN U(2) ELSE U(4)))
                /\ request'.mas = IF 0 \in rn THEN "HALFWORD" ELSE "WORD"
                /\ cpu'.instruction_step = STEP0
                /\ (5 \in get_cpsr(cpu'.rf)) = (0 \in rn)
                /\ cpu'.arm_instruction_queue = << >>
                /\ response.addr = target \ {1}
                /\ response.data = memory_get(memory, target \ {1})
                /\ cpu'.arm_current_execute =
                        IF 0 \in rn THEN HalfwordAt(response.data, target)
                        ELSE response.data]_vars

\* The BX to 0x00100003 has retired: the core is in the halfword instruction
\* set and is to execute the upper half of the word at 0x00100000
C35_Witness ==
    /\ Retired("BranchAndExchange")
    /\ ExchangeOperand(snapshot.entry) = W(\h0010, \h0003)
    /\ 5 \in get_cpsr(cpu.rf)
    /\ cpu.arm_current_execute = W(\h0000, \h2222)
    /\ request.address = W(\h0010, \h0004)
    /\ request.mas = "HALFWORD"


\* The call that redirects the control flow: the first call of a branch, of
\* a branch and exchange, of a software interrupt or of an undefined
\* instruction, and the call after the one in which a data processing wrote
\* r15, the condition having passed
RedirectingCall ==
    /\ BeganPassing(snapshot'.entry)
    /\ \/ last_op'.type \in {"Branch", "BranchAndExchange", "SoftwareInterrupt", "Undefined"}
            /\ inflight = 0
       \/ /\ last_op'.type = "DataProcessing"
          /\ ~Forbidden(snapshot'.entry.arm_current_execute)
          /\ WritesPc(snapshot'.entry)
          /\ inflight + 2 = DataProcessingCalls(snapshot'.entry)

\* The queue holds at most 2 words, and a call that the handler ends at
\* STEP0 finds a word to pop
QueueWithinDepth ==
    /\ Len(cpu.arm_instruction_queue) <= 2
    /\ ~panicked => \A overflow_checks \in BOOLEAN :
        \E m \in {execute(cpu, [response EXCEPT !.n_wait = "HIGH"], overflow_checks)} :
            (~m.panic /\ m.cpu.instruction_step = STEP0)
                => m.cpu.arm_instruction_queue # << >>

\* C36: in every state the queue holds at most 2 words and the retirement
\* finds a word to pop; the call that redirects the control flow leaves the
\* queue empty; a ready call that follows a ready call pushes the word of
\* the response at the top of step only when the request that was served is
\* an opcode fetch.
C36_PrefetchQueue ==
    /\ []QueueWithinDepth
    /\ [][(last_op'.n_wait = "HIGH" /\ ~panicked')
            => /\ RedirectingCall => cpu'.arm_instruction_queue = << >>
               /\ (last_op.n_wait = "HIGH"
                    /\ fetch(cpu, response).arm_instruction_queue # cpu.arm_instruction_queue)
                    => /\ request.n_opc = "LOW" /\ request.nr_w = "LOW"
                       /\ fetch(cpu, response).arm_instruction_queue
                            = Append(cpu.arm_instruction_queue,
                                     [data |-> memory_get(memory, request.address \ {0, 1}),
                                      addr |-> request.address \ {0, 1}])]_vars


\* The bits of a word that a write of the size mas at address replaces
WrittenLane(address, mas) ==
    CASE mas = "BYTE" -> {i \in 0..31 : i \div 8 = address % 4}
      [] mas = "HALFWORD" -> {i \in 0..31 : i \div 16 = (address \div 2) % 2}
      [] mas = "WORD" -> 0..31

\* C37: a call of Memory::write with an address of the memory completes
\* without a failure. On a writable memory, whatever its base address, it
\* replaces in the word that contains the address the lane of the transfer
\* size (the byte address mod 4, the half that bit 1 selects, the whole
\* word) by the same lane of the data and leaves the other lanes and the
\* other words as they are; on a read-only memory it changes nothing.
C37_WriteReplacesLane ==
    [][(/\ calls' = calls + 1
        /\ call'.op = "write"
        /\ call'.address >= memory.init_address
        /\ call'.address < memory.init_address + memory.size)
         => /\ ~panicked'
            /\ memory'.is_read_only = memory.is_read_only
            /\ memory'.init_address = memory.init_address
            /\ memory'.size = memory.size
            /\ DOMAIN memory'.data = DOMAIN memory.data
            /\ \A i \in DOMAIN memory.data :
                memory'.data[i] =
                    IF ~memory.is_read_only
                        /\ i = (call'.address - memory.init_address) \div 4
                    THEN (memory.data[i] \ WrittenLane(call'.address, call'.mas))
                            \cup (call'.data \cap WrittenLane(call'.address, call'.mas))
                    ELSE memory.data[i]]_vars


\* The ready call made in the state self with the response rsp pushes a
\* word into the queue, at the top of step or in the handler
PushesResponse(self, rsp) ==
    \E overflow_checks \in BOOLEAN :
    \E m \in {execute(self, [rsp EXCEPT !.n_wait = "HIGH"], overflow_checks)} :
        ~m.panic /\ Len(m.cpu.arm_instruction_queue) > Len(self.arm_instruction_queue)

\* C38: a write request returned by a ready call has n_opc HIGH. Of the
\* request served before a ready call that follows a ready call: it had
\* n_opc LOW if the call pushes its response into the queue, and n_opc HIGH
\* if it is a read made by a load, a block transfer, a half-word transfer
\* or a swap in flight whose response the call does not push.
C38_OpcodeSignal ==
    [][(last_op'.n_wait = "HIGH" /\ ~panicked')
        => /\ request'.nr_w = "HIGH" => request'.n_opc = "HIGH"
           /\ last_op.n_wait = "HIGH" =>
                /\ PushesResponse(cpu, response) => request.n_opc = "LOW"
                /\ (/\ last_op'.type \in {"SingleDataTransfer", "HwTransfer",
                                          "BlockDataTransfer", "SingleDataSwap"}
                    /\ cpu.instruction_step # STEP0
                    /\ request.nr_w = "LOW"
                    /\ ~PushesResponse(cpu, response))
                     => request.n_opc = "HIGH"]_vars


\* C39: the handler of the add-offset-to-SP word with the 7-bit immediate nn
\* leaves in r13 the r13 it found plus 4 * nn when bit 7 of the word is
\* clear and minus 4 * nn when it is set, modulo 2^32; the other registers
\* and the PSRs are as before and the FSM is at STEP0, so that the call of
\* step retires the instruction.
C39_AddOffsetToSp ==
    [][(call.op = "decode_thumb" /\ call'.op = "thumb_add_offset_to_sp")
        => \E entry \in {snapshot'.entry} :
           \E offset \in {{i + 2 : i \in entry.arm_current_execute \cap (0..6)}} :
            /\ get_register(cpu'.rf, 13, 0) =
                    IF 7 \in entry.arm_current_execute
                    THEN wrapping_sub(get_register(entry.rf, 13, 0), offset)
                    ELSE wrapping_add(get_register(entry.rf, 13, 0), offset)
            /\ \A r \in (0..15) \ {13} :
                    get_register(cpu'.rf, r, 0) = get_register(entry.rf, r, 0)
            /\ get_cpsr(cpu'.rf) = get_cpsr(entry.rf)
            /\ cpu'.rf.spsr = entry.rf.spsr
            /\ cpu'.instruction_step = STEP0]_vars


\* Both operands are in 0..2^31 - 1 and the exact result of the opcode, an
\* addition or a subtraction of the two, fits in a signed 32-bit word
CommonCase(operand1, operand2, opcode) ==
    /\ 31 \notin operand1
    /\ 31 \notin operand2
    /\ opcode \in {2, 4, 10, 11}
    /\ opcode \in {4, 11} => 31 \notin wrapping_add(operand1, operand2)

\* C40: on ADD, SUB, CMN and CMP of two operands in 0..2^31 - 1 whose exact
\* result fits in a signed 32-bit word, the alu of mod.rs returns the
\* result, the carry and the overflow that the alu of instruction.rs
\* returns.
C40_AluDerivationsAgree ==
    (call.op = "alu_sign_extended" /\ CommonCase(call.operand1, call.operand2, call.opcode))
        => \E other \in {alu(register_file, call.operand1, call.operand2, call.opcode)} :
            /\ call.result = other.result
            /\ call.c = other.c
            /\ call.v = other.v

====
